---- MODULE Spec2Model ----
(***************************************************************************)
(* State-machine model of the Smile Dental Temps mobile client.           *)
(*                                                                         *)
(*   JobsScreen  (frontend/components/JobsScreen.tsx)                      *)
(*       jobs, searchText, selectedJobType, filteredJobs, loading,         *)
(*       the filter effect, fetchJobs and applyToJob                       *)
(*   AuthScreen  (unnamed/part_000)                                        *)
(*       isLogin, activePortal, loading, the form values, toggleMode,      *)
(*       onSubmit                                                          *)
(*   ApplicationsScreen  (frontend/app/components/ApplicationsScreen.tsx)  *)
(*       applications, loading, fetchApplications, the card renderer       *)
(*   JobPostingScreen  (frontend/app/components/JobPostingScreen.tsx)      *)
(*       loading, the form values, onSubmit and the request body           *)
(*   DashboardScreen  (frontend/components/DashboardScreen.tsx)            *)
(*       activeTab, the tab bar and the tab content                        *)
(*   Index       (frontend/app/components/JobPostingScreen.tsx, 652-757)   *)
(*       isAuthenticated, user, loading, checkAuthStatus, handleLogin,     *)
(*       handleLogout, and the AsyncStorage keys access_token / user_data  *)
(*                                                                         *)
(* Text is modelled as a sequence of one-character strings so that         *)
(* toLowerCase() and includes() are computed, not assumed.  Every `await`  *)
(* on a network call or on AsyncStorage is a suspension point: the part of *)
(* a handler before it and the part after it are separate actions, and the *)
(* calls in flight are kept in the state.  The backend is a black box: a   *)
(* response is drawn from a bounded set when it arrives.                   *)
(***************************************************************************)
EXTENDS Integers, Sequences, FiniteSets, TLC

VARIABLES
    \* ---- JobsScreen ----
    jobsMounted,       \* the component has rendered and its mount effects ran
    jobsUser,          \* the `user` prop of JobsScreen
    jobs,              \* useState<Job[]>([])
    jobsLoading,       \* useState(true)            (JobsScreen `loading`)
    searchText,        \* useState('')
    selectedJobType,   \* useState('')
    filteredJobs,      \* useState<Job[]>([])
    filterDirty,       \* the effect on [jobs, searchText, selectedJobType] is pending
    fetchCalls,        \* fetchJobs() calls in flight, in the order they were issued
    applyCalls,        \* applyToJob() calls in flight
    \* ---- AuthScreen ----
    isLogin,           \* useState(true)
    activePortal,      \* useState('professional')
    authLoading,       \* useState(false)           (AuthScreen `loading`)
    form,              \* the values held by useForm<AuthFormData>()
    submit,            \* the onSubmit call in flight, handleLogin included
    \* ---- Index (root shell) ----
    isAuthenticated,   \* useState(false)
    user,              \* useState<User | null>(null)
    appLoading,        \* useState(true)            (Index `loading`)
    checkCall,         \* the checkAuthStatus call of this process run
    logoutPc,          \* the handleLogout call in flight
    \* ---- ApplicationsScreen ----
    appsMounted,       \* the component has rendered and its mount effect ran
    appsUser,          \* the `user` prop of ApplicationsScreen
    applications,      \* useState<Application[]>([])
    appsLoading,       \* useState(true)            (ApplicationsScreen `loading`)
    appsCall,          \* the fetchApplications call of this component
    \* ---- JobPostingScreen ----
    postUser,          \* the `user` prop of JobPostingScreen
    postForm,          \* the values held by useForm<JobFormData>()
    postLoading,       \* useState(false)           (JobPostingScreen `loading`)
    postCall,          \* the onSubmit call in flight
    \* ---- DashboardScreen ----
    activeTab,         \* useState<Tab>('jobs')
    orphanCalls,       \* calls in flight of screens that were unmounted
    \* ---- shared ----
    alert,             \* the messages of the Alert.alert calls of the last step
    storeToken,        \* AsyncStorage 'access_token'
    storeUser          \* AsyncStorage 'user_data'

jobsVars == <<jobsMounted, jobsUser, jobs, jobsLoading, searchText, selectedJobType,
              filteredJobs, filterDirty, fetchCalls, applyCalls>>
authVars == <<isLogin, activePortal, authLoading, form, submit>>
rootVars == <<isAuthenticated, user, appLoading, checkCall, logoutPc>>
sessionVars == <<authVars, rootVars>>
storeVars == <<storeToken, storeUser>>
appsVars == <<appsMounted, appsUser, applications, appsLoading, appsCall>>
postVars == <<postUser, postForm, postLoading, postCall>>
dashVars == <<activeTab, orphanCalls>>
screenVars == <<appsVars, postVars, dashVars>>
vars == <<jobsVars, authVars, rootVars, alert, storeVars, appsVars, postVars,
          dashVars>>

(***************************************************************************)
(* Bounds                                                                  *)
(***************************************************************************)
MaxJobs == 2        \* longest job list a GET /api/jobs response carries
MaxFetches == 2     \* fetchJobs() calls in flight at once
MaxApplies == 1     \* applyToJob() calls in flight at once
MaxExtraFilled == 1 \* form fields, beyond the five every registration requires, holding a value at once
MaxOrphans == 1     \* calls of unmounted screens in flight at once

NULL == "null"      \* JavaScript null / undefined / a missing storage key

(***************************************************************************)
(* Text                                                                    *)
(***************************************************************************)
UpperChars == <<"A","B","C","D","E","F","G","H","I","J","K","L","M",
                "N","O","P","Q","R","S","T","U","V","W","X","Y","Z">>
LowerChars == <<"a","b","c","d","e","f","g","h","i","j","k","l","m",
                "n","o","p","q","r","s","t","u","v","w","x","y","z">>

\* String.prototype.toLowerCase on one character (ASCII range)
ToLowerChar(ch) ==
    IF \E i \in 1..Len(UpperChars) : UpperChars[i] = ch
    THEN LowerChars[CHOOSE i \in 1..Len(UpperChars) : UpperChars[i] = ch]
    ELSE ch

\* String.prototype.toLowerCase
ToLowerCase(s) == [i \in 1..Len(s) |-> ToLowerChar(s[i])]

\* String.prototype.includes: t occurs in s as a contiguous substring
Includes(s, t) ==
    \E k \in 0..(Len(s) - Len(t)) : SubSeq(s, k + 1, k + Len(t)) = t

(***************************************************************************)
(* Jobs                                                                    *)
(***************************************************************************)
\* the `value`s of jobTypes; '' is the "All Positions" sentinel
JobTypeValues == {"", "dental_hygienist", "dentist", "dental_assistant", "front_desk"}

\* interface Job, the fields JobsScreen reads in filterJobs / renderJobCard
Job(id, title, type, city, state, count) ==
    [id |-> id, title |-> title, job_type |-> type,
     location_city |-> city, location_state |-> state,
     applications_count |-> count]

HygienistAM(n) ==
    Job(1, <<"H","y","g","i","e","n","i","s","t"," ","A","M">>, "dental_hygienist",
        <<"A","u","s","t","i","n">>, <<"T","X">>, n)
FrontDeskPM(n) ==
    Job(2, <<"F","r","o","n","t"," ","D","e","s","k"," ","P","M">>, "front_desk",
        <<"D","a","l","l","a","s">>, <<"T","X">>, n)

\* the jobs a response may carry; job 1 appears with two applications counts
JobPool == {HygienistAM(0), HygienistAM(1), FrontDeskPM(1)}
JobIds == {j.id : j \in JobPool}

RECURSIVE SeqsUpTo(_, _)
SeqsUpTo(S, n) ==
    IF n = 0 THEN {<<>>}
    ELSE LET shorter == SeqsUpTo(S, n - 1)
         IN shorter \cup {Append(s, x) : s \in {q \in shorter : Len(q) = n - 1}, x \in S}

\* response bodies of GET /api/jobs: lists of jobs with pairwise distinct ids
JobLists ==
    {J \in SeqsUpTo(JobPool, MaxJobs) :
        \A a, b \in 1..Len(J) : a # b => J[a].id # J[b].id}

\* what the user may type into the search box
SearchTexts == {<<>>, <<"d","e","s","k">>, <<"t","x">>, <<"A","U","S">>}

\* filterJobs with the type filter applied to `jobs` instead of `filtered`
FilterJobsTypeOnJobs(J, t, c) ==
    LET lt == ToLowerCase(t)
        byText == IF t # <<>>
                  THEN SelectSeq(J, LAMBDA job :
                           \/ Includes(ToLowerCase(job.title), lt)
                           \/ Includes(ToLowerCase(job.location_city), lt)
                           \/ Includes(ToLowerCase(job.location_state), lt))
                  ELSE J
    IN IF c # "" THEN SelectSeq(J, LAMBDA job : job.job_type = c) ELSE byText

\* filterJobs without the location_city clause
FilterJobsNoCity(J, t, c) ==
    LET lt == ToLowerCase(t)
        byText == IF t # <<>>
                  THEN SelectSeq(J, LAMBDA job :
                           \/ Includes(ToLowerCase(job.title), lt)
                           \/ Includes(ToLowerCase(job.location_state), lt))
                  ELSE J
    IN IF c # "" THEN SelectSeq(byText, LAMBDA job : job.job_type = c) ELSE byText

\* filterJobs without the `if (selectedJobType)` guard
FilterJobsTypeAlways(J, t, c) ==
    LET lt == ToLowerCase(t)
        byText == IF t # <<>>
                  THEN SelectSeq(J, LAMBDA job :
                           \/ Includes(ToLowerCase(job.title), lt)
                           \/ Includes(ToLowerCase(job.location_city), lt)
                           \/ Includes(ToLowerCase(job.location_state), lt))
                  ELSE J
    IN SelectSeq(byText, LAMBDA job : job.job_type = c)

\* const filterJobs = () => { ... }   computed as the code computes it:
\* the text filter (when searchText is truthy), then the type filter
\* (when selectedJobType is truthy); Array.prototype.filter keeps order
FilterJobs(J, t, c) ==
    LET lt == ToLowerCase(t)
        byText == IF t # <<>>
                  THEN SelectSeq(J, LAMBDA job :
                           \/ Includes(ToLowerCase(job.title), lt)
                           \/ Includes(ToLowerCase(job.location_city), lt)
                           \/ Includes(ToLowerCase(job.location_state), lt))
                  ELSE J
        byType == IF c # ""
                  THEN SelectSeq(byText, LAMBDA job : job.job_type = c)
                  ELSE byText
    IN byType

(***************************************************************************)
(* Users, tokens, server messages                                          *)
(***************************************************************************)
Users == {"pro1", "cli1"}
Role(u) == IF u = "pro1" THEN "professional"
           ELSE IF u = "adm1" THEN "admin"
           ELSE "client"
Tokens == {"t1", "t2"}

\* error.response?.data?.detail : absent (NULL), empty, or a message
Details == {NULL, "", "Already applied"}

LoadJobsFailed == "Failed to load jobs. Please try again."
ApplySucceeded == "Your application has been submitted!"
ApplyFallback == "Failed to apply to job. Please try again."

\* a || b on strings: b when a is undefined or ''
OrElse(a, b) == IF a = NULL \/ a = "" THEN b ELSE a

\* interface User: the object GET /api/auth/me answers for user u, as its
\* properties in order.  A User object is named by its id in the state.
Profile(u) == <<<<"id", u>>, <<"role", Role(u)>>>>

\* obj[k], undefined when the key is absent
Get(obj, k) ==
    IF \E n \in 1..Len(obj) : obj[n][1] = k
    THEN obj[CHOOSE n \in 1..Len(obj) :
                 obj[n][1] = k /\ \A m \in 1..(n - 1) : obj[m][1] # k][2]
    ELSE NULL

\* the User object a list of properties is
UserOf(obj) == Get(obj, "id")

Quote == "\""

RECURSIVE StringifyMembers(_, _)
StringifyMembers(obj, n) ==
    IF n > Len(obj) THEN ""
    ELSE (IF n > 1 THEN "," ELSE "")
           \o Quote \o obj[n][1] \o Quote \o ":" \o Quote \o obj[n][2] \o Quote
           \o StringifyMembers(obj, n + 1)

\* JSON.stringify of an object whose values are strings without quotes or
\* backslashes
JSONStringify(obj) == "{" \o StringifyMembers(obj, 1) \o "}"

CharAt(s, i) == SubSeq(s, i, i)

\* the position of the first quote of s at or after i, Len(s) + 1 when none
RECURSIVE QuoteFrom(_, _)
QuoteFrom(s, i) ==
    IF i > Len(s) THEN Len(s) + 1
    ELSE IF CharAt(s, i) = Quote THEN i
    ELSE QuoteFrom(s, i + 1)

SyntaxError == [ok |-> FALSE, value |-> <<>>]

\* the members of an object from position i of s on: "key":"value" pairs
\* separated by commas and closed by the } that ends the text
RECURSIVE ParseMembers(_, _, _)
ParseMembers(s, i, acc) ==
    LET k1 == QuoteFrom(s, i + 1)          \* closes the key
        k2 == QuoteFrom(s, k1 + 3)         \* closes the value
    IN IF \/ i > Len(s) \/ CharAt(s, i) # Quote
          \/ k1 + 2 > Len(s)
          \/ CharAt(s, k1 + 1) # ":" \/ CharAt(s, k1 + 2) # Quote
          \/ k2 + 1 > Len(s)
       THEN SyntaxError
       ELSE LET acc2 == Append(acc, <<SubSeq(s, i + 1, k1 - 1),
                                      SubSeq(s, k1 + 3, k2 - 1)>>)
            IN IF CharAt(s, k2 + 1) = "}" /\ k2 + 1 = Len(s)
               THEN [ok |-> TRUE, value |-> acc2]
               ELSE IF CharAt(s, k2 + 1) = ","
               THEN ParseMembers(s, k2 + 2, acc2)
               ELSE SyntaxError

\* JSON.parse on the texts of flat objects with string values: the object,
\* or a SyntaxError
JSONParse(s) ==
    IF s = "{}" THEN [ok |-> TRUE, value |-> <<>>]
    ELSE IF Len(s) < 2 \/ CharAt(s, 1) # "{" THEN SyntaxError
    ELSE ParseMembers(s, 2, <<>>)

\* the text handleLogin stores under user_data for user u
UserData(u) == JSONStringify(Profile(u))

\* Index rendering the Dashboard for every non-null user, isAuthenticated
\* not looked at
IndexRenderUserOnly ==
    IF appLoading THEN "loading"
    ELSE IF user # NULL THEN "dashboard"
    ELSE "auth"

\* what Index returns: the loading view, the Dashboard or the AuthScreen
IndexRender ==
    IF appLoading THEN "loading"
    ELSE IF isAuthenticated /\ user # NULL THEN "dashboard"
    ELSE "auth"

\* {isAuthenticated && user ? <DashboardScreen/> : <AuthScreen/>}, below the
\* `if (loading)` early return
DashboardShown == IndexRender = "dashboard"
AuthShown == IndexRender = "auth"

(***************************************************************************)
(* JobsScreen                                                              *)
(***************************************************************************)
\* the state of a JobsScreen when it is constructed
JobsScreenInitial ==
    /\ jobsMounted = FALSE
    /\ jobs = <<>>
    /\ jobsLoading = TRUE
    /\ searchText = <<>>
    /\ selectedJobType = ""
    /\ filteredJobs = <<>>
    /\ filterDirty = TRUE
    /\ fetchCalls = <<>>
    /\ applyCalls = <<>>

\* fetchJobs() up to its first await: AsyncStorage.getItem('access_token')
\* `superseded` records that a fetchJobs call issued later than this one has
\* already delivered its response
StartFetch ==
    Append(fetchCalls, [pc |-> "getItem", token |-> NULL, superseded |-> FALSE])

RemoveAt(s, i) == SubSeq(s, 1, i - 1) \o SubSeq(s, i + 1, Len(s))

\* useEffect(() => { fetchJobs(); }, [])
JobsScreenMount ==
    /\ DashboardShown
    /\ ~jobsMounted
    /\ jobsMounted' = TRUE
    /\ fetchCalls' = StartFetch
    /\ alert' = <<>>
    /\ UNCHANGED <<jobsUser, jobs, jobsLoading, searchText, selectedJobType,
                   filteredJobs, filterDirty, applyCalls, storeVars,
                   sessionVars, screenVars>>

\* useEffect(() => { filterJobs(); }, [jobs, searchText, selectedJobType])
\* React runs a pending effect before it renders the next state update, so
\* the three setters of its dependencies wait for it (~filterDirty)
FilterEffect ==
    /\ filterDirty
    /\ filteredJobs' = FilterJobs(jobs, searchText, selectedJobType)
    /\ filterDirty' = FALSE
    /\ alert' = <<>>
    /\ UNCHANGED <<jobsMounted, jobsUser, jobs, jobsLoading, searchText,
                   selectedJobType, fetchCalls, applyCalls, storeVars,
                   sessionVars, screenVars>>

\* onChangeText={setSearchText}
SetSearchText(t) ==
    /\ jobsMounted
    /\ ~filterDirty
    /\ t # searchText
    /\ searchText' = t
    /\ filterDirty' = TRUE
    /\ alert' = <<>>
    /\ UNCHANGED <<jobsMounted, jobsUser, jobs, jobsLoading, selectedJobType,
                   filteredJobs, fetchCalls, applyCalls, storeVars,
                   sessionVars, screenVars>>

\* setSelectedJobType with selectedJobType missing from the effect's dependencies
SetSelectedJobTypeNoEffect(c) ==
    /\ jobsMounted
    /\ ~filterDirty
    /\ c # selectedJobType
    /\ selectedJobType' = c
    /\ alert' = <<>>
    /\ UNCHANGED <<jobsMounted, jobsUser, jobs, jobsLoading, searchText,
                   filteredJobs, filterDirty, fetchCalls, applyCalls,
                   storeVars, sessionVars, screenVars>>

\* onPress={() => setSelectedJobType(type.value)}
SetSelectedJobType(c) ==
    /\ jobsMounted
    /\ ~filterDirty
    /\ c # selectedJobType
    /\ selectedJobType' = c
    /\ filterDirty' = TRUE
    /\ alert' = <<>>
    /\ UNCHANGED <<jobsMounted, jobsUser, jobs, jobsLoading, searchText,
                   filteredJobs, fetchCalls, applyCalls, storeVars,
                   sessionVars, screenVars>>

\* fetchJobs issuing its request without reading the token from storage
FetchJobsGetItemNoRead(i) ==
    /\ i \in 1..Len(fetchCalls)
    /\ fetchCalls[i].pc = "getItem"
    /\ fetchCalls' = [fetchCalls EXCEPT ![i].pc = "get"]
    /\ alert' = <<>>
    /\ UNCHANGED <<jobsMounted, jobsUser, jobs, jobsLoading, searchText,
                   selectedJobType, filteredJobs, filterDirty, applyCalls,
                   storeVars, sessionVars, screenVars>>

\* fetchJobs: getItem resolved, axios.get issued with Bearer <token>
FetchJobsGetItem(i) ==
    /\ i \in 1..Len(fetchCalls)
    /\ fetchCalls[i].pc = "getItem"
    /\ fetchCalls' = [fetchCalls EXCEPT ![i].pc = "get", ![i].token = storeToken]
    /\ alert' = <<>>
    /\ UNCHANGED <<jobsMounted, jobsUser, jobs, jobsLoading, searchText,
                   selectedJobType, filteredJobs, filterDirty, applyCalls,
                   storeVars, sessionVars, screenVars>>

\* fetchJobs: the GET resolved with body J: setJobs(response.data); finally
FetchJobsResolve(i, J) ==
    /\ i \in 1..Len(fetchCalls)
    /\ fetchCalls[i].pc = "get"
    /\ ~filterDirty
    /\ jobs' = J
    /\ filterDirty' = TRUE
    /\ jobsLoading' = FALSE
    /\ fetchCalls' = RemoveAt([k \in 1..Len(fetchCalls) |->
                                 IF k < i
                                 THEN [fetchCalls[k] EXCEPT !.superseded = TRUE]
                                 ELSE fetchCalls[k]], i)
    /\ alert' = <<>>
    /\ UNCHANGED <<jobsMounted, jobsUser, searchText, selectedJobType,
                   filteredJobs, applyCalls, storeVars, sessionVars, screenVars>>

\* fetchJobs whose catch block empties the list
FetchJobsRejectClears(i) ==
    /\ i \in 1..Len(fetchCalls)
    /\ ~filterDirty
    /\ jobs' = <<>>
    /\ filterDirty' = TRUE
    /\ alert' = <<LoadJobsFailed>>
    /\ jobsLoading' = FALSE
    /\ fetchCalls' = RemoveAt(fetchCalls, i)
    /\ UNCHANGED <<jobsMounted, jobsUser, searchText, selectedJobType,
                   filteredJobs, applyCalls, storeVars, sessionVars, screenVars>>

\* fetchJobs: getItem or the GET rejected: catch, Alert, finally
FetchJobsReject(i) ==
    /\ i \in 1..Len(fetchCalls)
    /\ alert' = <<LoadJobsFailed>>
    /\ jobsLoading' = FALSE
    /\ fetchCalls' = RemoveAt(fetchCalls, i)
    /\ UNCHANGED <<jobsMounted, jobsUser, jobs, searchText, selectedJobType,
                   filteredJobs, filterDirty, applyCalls, storeVars, sessionVars, screenVars>>

\* a job card with the Apply button rendered for every role
ApplyToJobAnyRole(jobId) ==
    /\ DashboardShown
    /\ jobsMounted
    /\ ~jobsLoading
    /\ \E k \in 1..Len(filteredJobs) : filteredJobs[k].id = jobId
    /\ Len(applyCalls) < MaxApplies
    /\ applyCalls' = Append(applyCalls, [pc |-> "getItem", jobId |-> jobId, token |-> NULL])
    /\ alert' = <<>>
    /\ UNCHANGED <<jobsMounted, jobsUser, jobs, jobsLoading, searchText,
                   selectedJobType, filteredJobs, filterDirty, fetchCalls,
                   storeVars, sessionVars, screenVars>>

\* the Apply button of a rendered job card: applyToJob(job.id) up to getItem
ApplyToJob(jobId) ==
    /\ DashboardShown
    /\ jobsMounted
    /\ ~jobsLoading
    /\ Role(jobsUser) = "professional"
    /\ \E k \in 1..Len(filteredJobs) : filteredJobs[k].id = jobId
    /\ Len(applyCalls) < MaxApplies
    /\ applyCalls' = Append(applyCalls, [pc |-> "getItem", jobId |-> jobId, token |-> NULL])
    /\ alert' = <<>>
    /\ UNCHANGED <<jobsMounted, jobsUser, jobs, jobsLoading, searchText,
                   selectedJobType, filteredJobs, filterDirty, fetchCalls,
                   storeVars, sessionVars, screenVars>>

\* applyToJob: getItem resolved, axios.post /api/jobs/{id}/apply issued
ApplyToJobGetItem(i) ==
    /\ i \in 1..Len(applyCalls)
    /\ applyCalls[i].pc = "getItem"
    /\ applyCalls' = [applyCalls EXCEPT ![i].pc = "post", ![i].token = storeToken]
    /\ alert' = <<>>
    /\ UNCHANGED <<jobsMounted, jobsUser, jobs, jobsLoading, searchText,
                   selectedJobType, filteredJobs, filterDirty, fetchCalls,
                   storeVars, sessionVars, screenVars>>

\* applyToJob bumping applications_count locally instead of trusting the re-fetch
ApplyToJobResolveOptimistic(i) ==
    /\ i \in 1..Len(applyCalls)
    /\ applyCalls[i].pc = "post"
    /\ Len(fetchCalls) < MaxFetches
    /\ ~filterDirty
    /\ alert' = <<ApplySucceeded>>
    /\ jobs' = [k \in 1..Len(jobs) |->
                  IF jobs[k].id = applyCalls[i].jobId
                  THEN [jobs[k] EXCEPT !.applications_count = @ + 1]
                  ELSE jobs[k]]
    /\ filterDirty' = TRUE
    /\ fetchCalls' = StartFetch
    /\ applyCalls' = RemoveAt(applyCalls, i)
    /\ UNCHANGED <<jobsMounted, jobsUser, jobsLoading, searchText,
                   selectedJobType, filteredJobs, storeVars, sessionVars, screenVars>>

\* applyToJob: the POST resolved: Alert success, fetchJobs()
ApplyToJobResolve(i) ==
    /\ i \in 1..Len(applyCalls)
    /\ applyCalls[i].pc = "post"
    /\ Len(fetchCalls) < MaxFetches
    /\ alert' = <<ApplySucceeded>>
    /\ fetchCalls' = StartFetch
    /\ applyCalls' = RemoveAt(applyCalls, i)
    /\ UNCHANGED <<jobsMounted, jobsUser, jobs, jobsLoading, searchText,
                   selectedJobType, filteredJobs, filterDirty, storeVars, sessionVars, screenVars>>

\* applyToJob re-fetching on failure too (fetchJobs() moved after the try/catch)
ApplyToJobRejectRefetch(i, detail) ==
    /\ i \in 1..Len(applyCalls)
    /\ applyCalls[i].pc = "post"
    /\ Len(fetchCalls) < MaxFetches
    /\ alert' = <<OrElse(detail, ApplyFallback)>>
    /\ fetchCalls' = StartFetch
    /\ applyCalls' = RemoveAt(applyCalls, i)
    /\ UNCHANGED <<jobsMounted, jobsUser, jobs, jobsLoading, searchText,
                   selectedJobType, filteredJobs, filterDirty, storeVars, sessionVars, screenVars>>

\* applyToJob: the POST rejected (detail = NULL for a transport failure or a
\* body without detail): catch, Alert with detail || fallback
ApplyToJobReject(i, detail) ==
    /\ i \in 1..Len(applyCalls)
    /\ applyCalls[i].pc = "post"
    /\ alert' = <<OrElse(detail, ApplyFallback)>>
    /\ applyCalls' = RemoveAt(applyCalls, i)
    /\ UNCHANGED <<jobsMounted, jobsUser, jobs, jobsLoading, searchText,
                   selectedJobType, filteredJobs, filterDirty, fetchCalls,
                   storeVars, sessionVars, screenVars>>

\* applyToJob: AsyncStorage.getItem rejected: the same catch, no response
ApplyToJobGetItemReject(i) ==
    /\ i \in 1..Len(applyCalls)
    /\ applyCalls[i].pc = "getItem"
    /\ alert' = <<OrElse(NULL, ApplyFallback)>>
    /\ applyCalls' = RemoveAt(applyCalls, i)
    /\ UNCHANGED <<jobsMounted, jobsUser, jobs, jobsLoading, searchText,
                   selectedJobType, filteredJobs, filterDirty, fetchCalls,
                   storeVars, sessionVars, screenVars>>


(***************************************************************************)
(* AuthScreen                                                              *)
(***************************************************************************)
\* interface AuthFormData, the fields a Controller is rendered for
Fields == {"email", "password", "confirmPassword", "first_name", "last_name",
           "phone", "profession_type", "license_number", "experience_years",
           "dental_office_name", "office_address", "office_city",
           "office_state", "office_zip"}

\* the fields required of every registration
CoreFields == {"email", "password", "confirmPassword", "first_name", "last_name"}

ProfessionalFields == {"profession_type", "license_number", "experience_years"}
ClientFields == {"dental_office_name", "office_address", "office_city",
                 "office_state", "office_zip"}

\* the Controllers rendered for a mode and a portal
Rendered(login, portal) ==
    {"email", "password"}
      \cup (IF login THEN {}
            ELSE {"confirmPassword", "first_name", "last_name", "phone"}
                   \cup (IF portal = "professional" THEN ProfessionalFields
                                                   ELSE ClientFields))

\* fields whose Controller carries rules={{ required: ... }}
RequiredFields == CoreFields \cup ClientFields

\* what the user may type into a field ("" is the empty / unset value)
FieldValues(f) ==
    IF f = "email" THEN {"", "a@b.c"}
    ELSE IF f = "password" THEN {"", "abc12", "abc123", "abc124"}
    ELSE IF f = "confirmPassword" THEN {"", "abc123", "abc124"}
    ELSE {"", "x"}

\* pattern: /^\S+@\S+$/i on the values of FieldValues("email")
EmailPatternMatches(v) == v \in {"a@b.c"}

PasswordMinLength == 6

\* the rules of one rendered Controller
FieldValid(f, v) ==
    /\ f \in RequiredFields => v # ""
    /\ f = "email" => EmailPatternMatches(v)
    /\ f = "password" => Len(v) >= PasswordMinLength

\* handleSubmit(onSubmit) calls onSubmit only when every rendered field passes
FormValid == \A f \in Rendered(isLogin, activePortal) : FieldValid(f, form[f])

EmptyForm == [f \in Fields |-> ""]
IdleSubmit == [pc |-> "idle", isLogin |-> TRUE, token |-> NULL, bearer |-> NULL, user |-> NULL]

PasswordMismatch == "Passwords do not match"
WelcomeBack == "Welcome back!"
AccountCreated == "Account created successfully!"
AuthFallback == "An error occurred. Please try again."
SaveLoginFailed == "Failed to save login information"
AuthDetails == {NULL, "", "Incorrect email or password"}

\* the state of an AuthScreen when it is constructed
AuthScreenInitial ==
    /\ isLogin = TRUE
    /\ activePortal = "professional"
    /\ authLoading = FALSE
    /\ form = EmptyForm
    /\ submit = IdleSubmit

\* onChangeText={onChange} / onPress={() => onChange(option.value)}
AuthSetField(f, v) ==
    /\ AuthShown
    /\ f \in Rendered(isLogin, activePortal)
    /\ v \in FieldValues(f)
    /\ v # form[f]
    /\ form' = [form EXCEPT ![f] = v]
    /\ Cardinality({g \in Fields \ CoreFields : form'[g] # ""}) <= MaxExtraFilled
    /\ alert' = <<>>
    /\ UNCHANGED <<isLogin, activePortal, authLoading, submit, rootVars,
                   storeVars, jobsVars, screenVars>>

\* setActivePortal followed by a reset() of the form
SetActivePortalResets(p) ==
    /\ AuthShown
    /\ p # activePortal
    /\ activePortal' = p
    /\ form' = EmptyForm
    /\ alert' = <<>>
    /\ UNCHANGED <<isLogin, authLoading, submit, rootVars, storeVars,
                   jobsVars, screenVars>>

\* onPress={() => setActivePortal(...)}
SetActivePortal(p) ==
    /\ AuthShown
    /\ p # activePortal
    /\ activePortal' = p
    /\ alert' = <<>>
    /\ UNCHANGED <<isLogin, authLoading, form, submit, rootVars, storeVars,
                   jobsVars, screenVars>>

\* toggleMode with reset() forgetting confirmPassword
ToggleModeKeepsConfirm ==
    /\ AuthShown
    /\ isLogin' = ~isLogin
    /\ form' = [f \in Fields |-> IF f = "confirmPassword" THEN form[f] ELSE ""]
    /\ alert' = <<>>
    /\ UNCHANGED <<activePortal, authLoading, submit, rootVars, storeVars,
                   jobsVars, screenVars>>

\* const toggleMode = () => { setIsLogin(!isLogin); reset(); }
ToggleMode ==
    /\ AuthShown
    /\ isLogin' = ~isLogin
    /\ form' = EmptyForm
    /\ alert' = <<>>
    /\ UNCHANGED <<activePortal, authLoading, submit, rootVars, storeVars,
                   jobsVars, screenVars>>

\* onSubmit without the confirmPassword comparison
OnSubmitNoConfirm ==
    /\ AuthShown
    /\ ~authLoading
    /\ FormValid
    /\ authLoading' = TRUE
    /\ submit' = [IdleSubmit EXCEPT !.pc = "post", !.isLogin = isLogin]
    /\ alert' = <<>>
    /\ UNCHANGED <<isLogin, activePortal, form, rootVars, storeVars, jobsVars, screenVars>>

\* onPress={handleSubmit(onSubmit)} disabled={loading}: onSubmit up to the
\* await of axios.post
OnSubmit ==
    /\ AuthShown
    /\ ~authLoading
    /\ FormValid
    /\ IF ~isLogin /\ form["password"] # form["confirmPassword"]
       THEN /\ alert' = <<PasswordMismatch>>
            /\ UNCHANGED <<authLoading, submit>>
       ELSE /\ authLoading' = TRUE
            /\ submit' = [IdleSubmit EXCEPT !.pc = "post", !.isLogin = isLogin]
            /\ alert' = <<>>
    /\ UNCHANGED <<isLogin, activePortal, form, rootVars, storeVars, jobsVars, screenVars>>

\* onSubmit calling onLogin as soon as the token arrives, without /auth/me
OnSubmitPostResolveNoMe(t) ==
    /\ submit.pc = "post"
    /\ t \in Tokens
    /\ submit' = [submit EXCEPT !.pc = "setToken", !.token = t, !.user = "pro1"]
    /\ alert' = <<>>
    /\ UNCHANGED <<isLogin, activePortal, authLoading, form, rootVars,
                   storeVars, jobsVars, screenVars>>

\* onSubmit: the POST resolved with response.data.access_token = t:
\* axios.get /api/auth/me is issued with Authorization: Bearer t
OnSubmitPostResolve(t) ==
    /\ submit.pc = "post"
    /\ t \in Tokens
    /\ submit' = [submit EXCEPT !.pc = "me", !.token = t, !.bearer = t]
    /\ alert' = <<>>
    /\ UNCHANGED <<isLogin, activePortal, authLoading, form, rootVars,
                   storeVars, jobsVars, screenVars>>

\* onSubmit going on to /api/auth/me whatever the response carries
OnSubmitPostNoTokenStillAsks ==
    /\ submit.pc = "post"
    /\ submit' = [submit EXCEPT !.pc = "me"]
    /\ alert' = <<>>
    /\ UNCHANGED <<isLogin, activePortal, authLoading, form, rootVars,
                   storeVars, jobsVars, screenVars>>

\* onSubmit: the POST resolved without an access_token: finally
OnSubmitPostNoToken ==
    /\ submit.pc = "post"
    /\ submit' = IdleSubmit
    /\ authLoading' = FALSE
    /\ alert' = <<>>
    /\ UNCHANGED <<isLogin, activePortal, form, rootVars, storeVars, jobsVars, screenVars>>

\* onSubmit: the POST or the GET rejected: catch, Alert, finally
OnSubmitReject(detail) ==
    /\ submit.pc \in {"post", "me"}
    /\ alert' = <<OrElse(detail, AuthFallback)>>
    /\ submit' = IdleSubmit
    /\ authLoading' = FALSE
    /\ UNCHANGED <<isLogin, activePortal, form, rootVars, storeVars, jobsVars, screenVars>>

\* onSubmit: GET /api/auth/me resolved with profile u: onLogin(token, u),
\* i.e. handleLogin up to the await of setItem('access_token', token)
OnSubmitMeResolve(u) ==
    /\ submit.pc = "me"
    /\ u \in Users
    /\ submit' = [submit EXCEPT !.pc = "setToken", !.user = u]
    /\ alert' = <<>>
    /\ UNCHANGED <<isLogin, activePortal, authLoading, form, rootVars,
                   storeVars, jobsVars, screenVars>>

\* Alert.alert('Success', isLogin ? ... : ...) with the isLogin of the call
SuccessMessage(login) == IF login THEN WelcomeBack ELSE AccountCreated

\* handleLogin: setItem('access_token') resolved; awaits setItem('user_data')
HandleLoginTokenStored ==
    /\ submit.pc = "setToken"
    /\ storeToken' = submit.token
    /\ submit' = [submit EXCEPT !.pc = "setUser"]
    /\ alert' = <<>>
    /\ UNCHANGED <<isLogin, activePortal, authLoading, form, rootVars,
                   storeUser, jobsVars, screenVars>>

\* handleLogin passing userData to setItem without JSON.stringify
HandleLoginUserStoredNoStringify ==
    /\ submit.pc = "setUser"
    /\ storeUser' = "[object Object]"
    /\ user' = submit.user
    /\ isAuthenticated' = TRUE
    /\ alert' = <<SuccessMessage(submit.isLogin)>>
    /\ isLogin' = TRUE
    /\ activePortal' = "professional"
    /\ authLoading' = FALSE
    /\ form' = EmptyForm
    /\ submit' = IdleSubmit
    /\ UNCHANGED <<appLoading, checkCall, logoutPc, storeToken, jobsVars, screenVars>>

\* handleLogin: setItem('user_data') resolved: setUser, setIsAuthenticated;
\* back in onSubmit: the success Alert and finally.  The Dashboard replaces
\* the AuthScreen, whose state is discarded.
HandleLoginUserStored ==
    /\ submit.pc = "setUser"
    /\ storeUser' = JSONStringify(Profile(submit.user))
    /\ user' = submit.user
    /\ isAuthenticated' = TRUE
    /\ alert' = <<SuccessMessage(submit.isLogin)>>
    /\ isLogin' = TRUE
    /\ activePortal' = "professional"
    /\ authLoading' = FALSE
    /\ form' = EmptyForm
    /\ submit' = IdleSubmit
    /\ UNCHANGED <<appLoading, checkCall, logoutPc, storeToken, jobsVars, screenVars>>

\* handleLogin: a setItem rejected: catch, Alert; back in onSubmit: the
\* success Alert and finally
HandleLoginStoreReject ==
    /\ submit.pc \in {"setToken", "setUser"}
    /\ alert' = <<SaveLoginFailed, SuccessMessage(submit.isLogin)>>
    /\ submit' = IdleSubmit
    /\ authLoading' = FALSE
    /\ UNCHANGED <<isLogin, activePortal, form, rootVars, storeVars, jobsVars, screenVars>>

(***************************************************************************)
(* Index, the root shell                                                   *)
(***************************************************************************)
\* the state of Index when it is constructed; useEffect(checkAuthStatus, [])
\* has called checkAuthStatus, which awaits getItem('access_token')
IndexInitial ==
    /\ isAuthenticated = FALSE
    /\ user = NULL
    /\ appLoading = TRUE
    /\ checkCall = [pc |-> "getToken", token |-> NULL]
    /\ logoutPc = "idle"

\* checkAuthStatus: getItem('access_token') resolved; awaits getItem('user_data')
CheckAuthStatusToken ==
    /\ checkCall.pc = "getToken"
    /\ checkCall' = [pc |-> "getUser", token |-> storeToken]
    /\ alert' = <<>>
    /\ UNCHANGED <<isAuthenticated, user, appLoading, logoutPc, authVars,
                   storeVars, jobsVars, screenVars>>

\* checkAuthStatus testing userData alone
CheckAuthStatusUserNoTokenTest ==
    /\ checkCall.pc = "getUser"
    /\ IF storeUser # NULL /\ JSONParse(storeUser).ok
       THEN /\ user' = UserOf(JSONParse(storeUser).value)
            /\ isAuthenticated' = TRUE
       ELSE UNCHANGED <<user, isAuthenticated>>
    /\ appLoading' = FALSE
    /\ checkCall' = [checkCall EXCEPT !.pc = "done"]
    /\ alert' = <<>>
    /\ UNCHANGED <<logoutPc, authVars, storeVars, jobsVars, screenVars>>

\* checkAuthStatus: getItem('user_data') resolved: restore when both are
\* present and JSON.parse returns; a SyntaxError goes to the catch; finally
CheckAuthStatusUser ==
    /\ checkCall.pc = "getUser"
    /\ IF checkCall.token # NULL /\ storeUser # NULL /\ JSONParse(storeUser).ok
       THEN /\ user' = UserOf(JSONParse(storeUser).value)
            /\ isAuthenticated' = TRUE
       ELSE UNCHANGED <<user, isAuthenticated>>
    /\ appLoading' = FALSE
    /\ checkCall' = [checkCall EXCEPT !.pc = "done"]
    /\ alert' = <<>>
    /\ UNCHANGED <<logoutPc, authVars, storeVars, jobsVars, screenVars>>

\* checkAuthStatus: a getItem rejected: catch, finally
CheckAuthStatusReject ==
    /\ checkCall.pc \in {"getToken", "getUser"}
    /\ appLoading' = FALSE
    /\ checkCall' = [checkCall EXCEPT !.pc = "done"]
    /\ alert' = <<>>
    /\ UNCHANGED <<isAuthenticated, user, logoutPc, authVars, storeVars,
                   jobsVars, screenVars>>

\* Sign Out: handleLogout up to the await of removeItem('access_token')
HandleLogout ==
    /\ DashboardShown
    /\ logoutPc = "idle"
    /\ logoutPc' = "removeToken"
    /\ alert' = <<>>
    /\ UNCHANGED <<isAuthenticated, user, appLoading, checkCall, authVars,
                   storeVars, jobsVars, screenVars>>

\* handleLogout with setUser(null) and setIsAuthenticated(false) moved ahead of
\* the removal of user_data
HandleLogoutFlagsFirst ==
    /\ logoutPc = "removeToken"
    /\ storeToken' = NULL
    /\ user' = NULL
    /\ isAuthenticated' = FALSE
    /\ logoutPc' = "removeUser"
    /\ alert' = <<>>
    /\ UNCHANGED <<appLoading, checkCall, authVars, storeUser, jobsVars, screenVars>>

\* handleLogout: removeItem('access_token') resolved; awaits removeItem('user_data')
HandleLogoutTokenRemoved ==
    /\ logoutPc = "removeToken"
    /\ storeToken' = NULL
    /\ logoutPc' = "removeUser"
    /\ alert' = <<>>
    /\ UNCHANGED <<isAuthenticated, user, appLoading, checkCall, authVars,
                   storeUser, jobsVars, screenVars>>

\* handleLogout: removeItem('user_data') resolved: setUser(null),
\* setIsAuthenticated(false); a fresh AuthScreen is rendered
HandleLogoutUserRemoved ==
    /\ logoutPc = "removeUser"
    /\ storeUser' = NULL
    /\ user' = NULL
    /\ isAuthenticated' = FALSE
    /\ logoutPc' = "idle"
    /\ alert' = <<>>
    /\ UNCHANGED <<appLoading, checkCall, authVars, storeToken, jobsVars, screenVars>>

\* handleLogout: a removeItem rejected: catch (console.error only)
HandleLogoutReject ==
    /\ logoutPc \in {"removeToken", "removeUser"}
    /\ logoutPc' = "idle"
    /\ alert' = <<>>
    /\ UNCHANGED <<isAuthenticated, user, appLoading, checkCall, authVars,
                   storeVars, jobsVars, screenVars>>

(***************************************************************************)
(* ApplicationsScreen                                                      *)
(***************************************************************************)
MaxApplications == 2

\* interface Application, reduced to the fields the claims read
Application(id, status) == [id |-> id, status |-> status]

\* the application records the backend may return
ApplicationPool == {Application(1, "pending"), Application(1, "accepted"),
                    Application(2, "rejected")}

\* response bodies of the applications endpoints: at most MaxApplications
\* records with distinct ids
ApplicationLists ==
    {A \in SeqsUpTo(ApplicationPool, MaxApplications) :
        \A i, j \in 1..Len(A) : i # j => A[i].id # A[j].id}

MyApplications == "/api/applications/my-applications"
ReceivedApplications == "/api/applications/received"
LoadApplicationsFailed == "Failed to load applications. Please try again."

\* the state of an ApplicationsScreen when it is constructed
ApplicationsScreenInitial ==
    /\ appsMounted = FALSE
    /\ applications = <<>>
    /\ appsLoading = TRUE
    /\ appsCall = [pc |-> "idle", token |-> NULL, endpoint |-> NULL]

\* renderItem={user.role === 'professional' ? renderProfessionalApplication
\*                                           : renderClientApplication}
CardRenderer ==
    IF Role(appsUser) = "professional" THEN "renderProfessionalApplication"
                                       ELSE "renderClientApplication"

\* useEffect(() => { fetchApplications(); }, []): fetchApplications up to the
\* await of AsyncStorage.getItem('access_token')
ApplicationsScreenMount ==
    /\ DashboardShown
    /\ ~appsMounted
    /\ appsMounted' = TRUE
    /\ appsCall' = [pc |-> "getItem", token |-> NULL, endpoint |-> NULL]
    /\ alert' = <<>>
    /\ UNCHANGED <<appsUser, applications, appsLoading, postVars, dashVars, jobsVars,
                   sessionVars, storeVars>>

\* fetchApplications requesting /api/applications/received for every role
FetchApplicationsGetItemReceived ==
    /\ appsCall.pc = "getItem"
    /\ appsCall' = [pc |-> "get", token |-> storeToken,
                    endpoint |-> ReceivedApplications]
    /\ alert' = <<>>
    /\ UNCHANGED <<appsMounted, appsUser, applications, appsLoading, postVars, dashVars,
                   jobsVars, sessionVars, storeVars>>

\* fetchApplications: getItem resolved, the endpoint chosen by user.role,
\* axios.get issued with Bearer <token>
FetchApplicationsGetItem ==
    /\ appsCall.pc = "getItem"
    /\ appsCall' = [pc |-> "get", token |-> storeToken,
                    endpoint |-> IF Role(appsUser) = "professional"
                                 THEN MyApplications
                                 ELSE ReceivedApplications]
    /\ alert' = <<>>
    /\ UNCHANGED <<appsMounted, appsUser, applications, appsLoading, postVars, dashVars,
                   jobsVars, sessionVars, storeVars>>

\* fetchApplications: the GET resolved with body A: setApplications; finally
FetchApplicationsResolve(A) ==
    /\ appsCall.pc = "get"
    /\ applications' = A
    /\ appsLoading' = FALSE
    /\ appsCall' = [appsCall EXCEPT !.pc = "done"]
    /\ alert' = <<>>
    /\ UNCHANGED <<appsMounted, appsUser, postVars, dashVars, jobsVars, sessionVars,
                   storeVars>>

\* fetchApplications with setLoading(false) on the success path only
FetchApplicationsRejectNoFinally ==
    /\ appsCall.pc \in {"getItem", "get"}
    /\ alert' = <<LoadApplicationsFailed>>
    /\ appsCall' = [appsCall EXCEPT !.pc = "done"]
    /\ UNCHANGED <<appsMounted, appsUser, applications, appsLoading, postVars,
                   dashVars, jobsVars, sessionVars, storeVars>>

\* fetchApplications: getItem or the GET rejected: catch, Alert, finally
FetchApplicationsReject ==
    /\ appsCall.pc \in {"getItem", "get"}
    /\ alert' = <<LoadApplicationsFailed>>
    /\ appsLoading' = FALSE
    /\ appsCall' = [appsCall EXCEPT !.pc = "done"]
    /\ UNCHANGED <<appsMounted, appsUser, applications, postVars, dashVars, jobsVars,
                   sessionVars, storeVars>>

(***************************************************************************)
(* JobPostingScreen                                                        *)
(***************************************************************************)
\* interface JobFormData
PostFields == {"title", "job_type", "description", "hourly_rate",
               "location_address", "location_city", "location_state",
               "location_zip", "job_date", "start_time", "end_time",
               "is_recurring", "recurring_pattern", "recurring_days",
               "recurring_end_date"}

LocationFields == {"location_address", "location_city", "location_state",
                   "location_zip"}
RecurrenceFields == {"recurring_pattern", "recurring_days", "recurring_end_date"}

\* fields whose Controller carries rules={{ required: ... }}
PostRequiredFields == {"title", "job_type", "hourly_rate", "job_date",
                       "start_time", "end_time"} \cup LocationFields

\* the clients a JobPostingScreen is rendered for: cli1 has an office address
\* on file, cli2 has none
PostUsers == {"cli1", "cli2"}

\* user.office_address, user.office_city, ..., NULL when undefined
Office(u, f) ==
    IF u # "cli1" THEN NULL
    ELSE IF f = "location_address" THEN "1 Main St"
    ELSE IF f = "location_city" THEN "Austin"
    ELSE IF f = "location_state" THEN "TX"
    ELSE IF f = "location_zip" THEN "78701"
    ELSE IF f = "location_latitude" THEN "30.27"
    ELSE IF f = "location_longitude" THEN "-97.74"
    ELSE NULL

\* the weekday buttons the model presses
DayPool == {"monday"}

\* useForm defaultValues; a field without a default is undefined (NULL), the
\* hourly-rate text is a sequence of characters and empty when unset
PostDefaults(u) ==
    [f \in PostFields |->
        IF f \in LocationFields THEN OrElse(Office(u, f), "")
        ELSE IF f = "is_recurring" THEN FALSE
        ELSE IF f = "recurring_pattern" THEN "weekly"
        ELSE IF f = "recurring_days" THEN {}
        ELSE IF f = "hourly_rate" THEN <<>>
        ELSE NULL]

\* a draft with the plain required fields typed in
FilledDraft(u) ==
    [PostDefaults(u) EXCEPT !["title"] = "Weekend Hygienist",
                            !["job_type"] = "dental_hygienist",
                            !["location_address"] = "1 Main St",
                            !["location_city"] = "Austin",
                            !["location_state"] = "TX",
                            !["location_zip"] = "78701",
                            !["start_time"] = "09:00",
                            !["end_time"] = "17:00"]

\* what the user may enter into a field
PostFieldValues(f) ==
    IF f = "title" THEN {"", "Weekend Hygienist"}
    ELSE IF f = "hourly_rate"
         THEN {<<>>, <<"7", ".", "5">>, <<"0">>, <<"-", "5">>, <<"a", "b", "c">>}
    ELSE IF f = "job_date" THEN {"", "2025-03-01", "tomorrow"}
    ELSE IF f = "recurring_end_date" THEN {"", "2025-12-31"}
    ELSE IF f = "is_recurring" THEN BOOLEAN
    ELSE IF f = "recurring_pattern" THEN {"weekly", "monthly"}
    ELSE IF f = "location_city" THEN {"", "Austin", "Dallas"}
    ELSE IF f = "job_type" THEN {"dental_hygienist"}
    ELSE IF f = "start_time" THEN {"09:00"}
    ELSE IF f = "end_time" THEN {"17:00"}
    ELSE {}

\* the fields the model edits; the others keep the value of the draft
PostEditedFields == {"title", "hourly_rate", "job_date", "recurring_end_date",
                     "is_recurring", "recurring_pattern", "location_city"}

DigitChars == <<"0", "1", "2", "3", "4", "5", "6", "7", "8", "9">>
IsDigit(ch) == \E n \in 1..10 : DigitChars[n] = ch
DigitValue(ch) == (CHOOSE n \in 1..10 : DigitChars[n] = ch) - 1

\* the number of digits of s from position i on
RECURSIVE DigitRun(_, _)
DigitRun(s, i) ==
    IF i <= Len(s) /\ IsDigit(s[i]) THEN 1 + DigitRun(s, i + 1) ELSE 0

\* the value of the digits s[i..j]
RECURSIVE DigitsValue(_, _, _)
DigitsValue(s, i, j) ==
    IF j < i THEN 0 ELSE 10 * DigitsValue(s, i, j - 1) + DigitValue(s[j])

NaN == [nan |-> TRUE, hundredths |-> 0]

\* parseFloat: an optional sign, digits, an optional fraction; the longest
\* such prefix is converted and NaN is returned when it holds no digit.  The
\* value is kept in hundredths (fraction digits beyond the second are cut);
\* leading blanks, exponents and Infinity are outside the entered texts
ParseFloat(s) ==
    LET signed == Len(s) > 0 /\ s[1] \in {"-", "+"}
        b == IF signed THEN 2 ELSE 1
        n == DigitRun(s, b)
        dot == b + n <= Len(s) /\ s[b + n] = "."
        m == IF dot THEN DigitRun(s, b + n + 1) ELSE 0
        tenths == IF m >= 1 THEN DigitValue(s[b + n + 1]) ELSE 0
        cents == IF m >= 2 THEN DigitValue(s[b + n + 2]) ELSE 0
        magnitude == 100 * DigitsValue(s, b, b + n - 1) + 10 * tenths + cents
    IN IF n + m = 0 THEN NaN
       ELSE [nan |-> FALSE,
             hundredths |-> IF signed /\ s[1] = "-" THEN 0 - magnitude
                                                    ELSE magnitude]

\* the YYYY-MM-DD literals among the entered texts
IsDateLiteral(d) == d \in {"2025-03-01", "2025-12-31"}

\* new Date(d + 'T00:00:00.000Z').toISOString() of a date literal
ToISOString(d) == d \o "T00:00:00.000Z"

\* the Controllers rendered for the form values
PostRendered ==
    (PostFields \ RecurrenceFields)
      \cup (IF postForm["is_recurring"]
            THEN {"recurring_pattern", "recurring_end_date"}
                   \cup (IF postForm["recurring_pattern"] = "weekly"
                         THEN {"recurring_days"} ELSE {})
            ELSE {})

\* required: the value is neither undefined nor empty
PostFieldFilled(f) ==
    IF f = "hourly_rate" THEN postForm[f] # <<>>
    ELSE postForm[f] # NULL /\ postForm[f] # ""

\* handleSubmit(onSubmit) calls onSubmit only when every rendered required
\* field is filled
PostFormValid == \A f \in PostRequiredFields \cap PostRendered : PostFieldFilled(f)

\* the keys of the JSON body: the keys of { ...data, hourly_rate, job_date,
\* location_latitude, location_longitude, recurring_end_date } whose value
\* is not undefined
JobDataKeys(data) ==
    {f \in PostFields \ {"is_recurring", "recurring_days", "hourly_rate",
                         "job_date", "recurring_end_date"} : data[f] # NULL}
      \cup {"is_recurring", "recurring_days", "hourly_rate", "job_date",
            "location_latitude", "location_longitude"}
      \cup (IF data["recurring_end_date"] # NULL /\ data["recurring_end_date"] # ""
            THEN {"recurring_end_date"} ELSE {})

\* const jobData = { ...data, hourly_rate: parseFloat(...), ... }
JobData(data, u) ==
    [keys |-> JobDataKeys(data),
     hourly_rate |-> ParseFloat(data["hourly_rate"]),
     job_date |-> ToISOString(data["job_date"]),
     is_recurring |-> data["is_recurring"],
     recurring_pattern |-> data["recurring_pattern"],
     recurring_days |-> data["recurring_days"],
     recurring_end_date |->
         IF data["recurring_end_date"] # NULL /\ data["recurring_end_date"] # ""
         THEN ToISOString(data["recurring_end_date"]) ELSE NULL,
     location_latitude |-> OrElse(Office(u, "location_latitude"), "0"),
     location_longitude |-> OrElse(Office(u, "location_longitude"), "0")]

\* new Date(...).toISOString() throws a RangeError on an invalid date
JobDataThrows(data) ==
    \/ ~IsDateLiteral(data["job_date"])
    \/ /\ data["recurring_end_date"] # NULL /\ data["recurring_end_date"] # ""
       /\ ~IsDateLiteral(data["recurring_end_date"])

NoBody == [keys |-> {}]
IdlePost == [pc |-> "idle", data |-> NULL, token |-> NULL, body |-> NoBody]

JobPosted == "Job posted successfully!"
PostFallback == "Failed to post job. Please try again."
PostDetails == {NULL, "", "Invalid job data"}

\* the state of a JobPostingScreen when it is constructed
JobPostingScreenInitial ==
    /\ postLoading = FALSE
    /\ postCall = IdlePost

\* case 'post': return user.role === 'client' ? <JobPostingScreen/> : null
PostShown == DashboardShown /\ postUser \in PostUsers /\ Role(postUser) = "client"

\* onChangeText={onChange} / onValueChange={onChange} / onPress={() => onChange(...)}
JobPostingSetField(f, v) ==
    /\ PostShown
    /\ f \in PostRendered
    /\ v \in PostFieldValues(f)
    /\ v # postForm[f]
    /\ postForm' = [postForm EXCEPT ![f] = v]
    /\ alert' = <<>>
    /\ UNCHANGED <<postUser, postLoading, postCall, appsVars, dashVars, jobsVars,
                   sessionVars, storeVars>>

\* a weekday button: the day is added to recurring_days or taken out of it
JobPostingToggleDay(d) ==
    /\ PostShown
    /\ "recurring_days" \in PostRendered
    /\ postForm' = [postForm EXCEPT !["recurring_days"] =
                       IF d \in @ THEN @ \ {d} ELSE @ \cup {d}]
    /\ alert' = <<>>
    /\ UNCHANGED <<postUser, postLoading, postCall, appsVars, dashVars, jobsVars,
                   sessionVars, storeVars>>

\* a submit button that is not disabled while loading
JobPostingOnSubmitWhileLoading ==
    /\ PostShown
    /\ PostFormValid
    /\ postLoading' = TRUE
    /\ postCall' = [IdlePost EXCEPT !.pc = "getItem", !.data = postForm]
    /\ alert' = <<>>
    /\ UNCHANGED <<postUser, postForm, appsVars, dashVars, jobsVars, sessionVars,
                   storeVars>>

\* onPress={handleSubmit(onSubmit)} disabled={loading}: onSubmit up to the
\* await of AsyncStorage.getItem('access_token')
JobPostingOnSubmit ==
    /\ PostShown
    /\ ~postLoading
    /\ PostFormValid
    /\ postLoading' = TRUE
    /\ postCall' = [IdlePost EXCEPT !.pc = "getItem", !.data = postForm]
    /\ alert' = <<>>
    /\ UNCHANGED <<postUser, postForm, appsVars, dashVars, jobsVars, sessionVars,
                   storeVars>>

\* onSubmit: getItem resolved; jobData is built and POST /api/jobs issued with
\* Bearer <token>, or toISOString throws: catch, Alert with the fallback
\* (the error has no response), finally
JobPostingGetItem ==
    /\ postCall.pc = "getItem"
    /\ IF JobDataThrows(postCall.data)
       THEN /\ alert' = <<PostFallback>>
            /\ postLoading' = FALSE
            /\ postCall' = IdlePost
       ELSE /\ postCall' = [postCall EXCEPT !.pc = "post", !.token = storeToken,
                                            !.body = JobData(postCall.data, postUser)]
            /\ alert' = <<>>
            /\ UNCHANGED postLoading
    /\ UNCHANGED <<postUser, postForm, appsVars, dashVars, jobsVars, sessionVars,
                   storeVars>>

\* onSubmit without the reset() on success
JobPostingResolveNoReset ==
    /\ postCall.pc = "post"
    /\ alert' = <<JobPosted>>
    /\ postLoading' = FALSE
    /\ postCall' = IdlePost
    /\ UNCHANGED <<postUser, postForm, appsVars, dashVars, jobsVars, sessionVars,
                   storeVars>>

\* onSubmit: the POST resolved: Alert, reset(), finally
JobPostingResolve ==
    /\ postCall.pc = "post"
    /\ alert' = <<JobPosted>>
    /\ postForm' = PostDefaults(postUser)
    /\ postLoading' = FALSE
    /\ postCall' = IdlePost
    /\ UNCHANGED <<postUser, appsVars, dashVars, jobsVars, sessionVars, storeVars>>

\* onSubmit whose catch block submits the form again
JobPostingRejectRetries(detail) ==
    /\ postCall.pc \in {"getItem", "post"}
    /\ postCall.pc = "getItem" => detail = NULL
    /\ alert' = <<OrElse(detail, PostFallback)>>
    /\ postLoading' = TRUE
    /\ postCall' = [IdlePost EXCEPT !.pc = "getItem", !.data = postCall.data]
    /\ UNCHANGED <<postUser, postForm, appsVars, dashVars, jobsVars, sessionVars,
                   storeVars>>

\* onSubmit: getItem or the POST rejected: catch, Alert with the detail of
\* the response or the fallback, finally
JobPostingReject(detail) ==
    /\ postCall.pc \in {"getItem", "post"}
    /\ postCall.pc = "getItem" => detail = NULL
    /\ alert' = <<OrElse(detail, PostFallback)>>
    /\ postLoading' = FALSE
    /\ postCall' = IdlePost
    /\ UNCHANGED <<postUser, postForm, appsVars, dashVars, jobsVars, sessionVars,
                   storeVars>>

(***************************************************************************)
(* DashboardScreen                                                         *)
(***************************************************************************)
\* the state of a DashboardScreen when it is constructed
DashboardScreenInitial == activeTab = "jobs"

\* const tabs = [...]: the keys of the tab bar, in order
TabKeys(u) ==
    <<"jobs">> \o (IF Role(u) = "client" THEN <<"post">> ELSE <<>>)
               \o <<"applications", "profile">>

\* renderTabContent(): the screen rendered for activeTab
TabContent ==
    IF ~DashboardShown THEN "none"
    ELSE IF activeTab = "jobs" THEN "JobsScreen"
    ELSE IF activeTab = "post"
         THEN (IF Role(user) = "client" THEN "JobPostingScreen" ELSE "none")
    ELSE IF activeTab = "applications" THEN "ApplicationsScreen"
    ELSE IF activeTab = "profile" THEN "profile"
    ELSE "none"

\* a call of an unmounted screen: it runs on to its request and to its
\* Alerts, and what it sets is set on the discarded screen.  `throws` is
\* whether building the request body will throw.
Orphan(op, call, throws) ==
    [op |-> op, pc |-> IF call.pc = "getItem" THEN "getItem" ELSE "request",
     token |-> call.token, throws |-> throws]

OrphansOf(op, calls) == [k \in 1..Len(calls) |-> Orphan(op, calls[k], FALSE)]

\* the calls in flight of the screen rendered for activeTab
CallsOfTab ==
    IF activeTab = "jobs"
    THEN OrphansOf("fetchJobs", fetchCalls) \o OrphansOf("applyToJob", applyCalls)
    ELSE IF activeTab = "applications" /\ appsCall.pc \in {"getItem", "get"}
    THEN <<Orphan("fetchApplications", appsCall, FALSE)>>
    ELSE IF activeTab = "post" /\ postCall.pc # "idle"
    THEN <<Orphan("onSubmit", postCall, JobDataThrows(postCall.data))>>
    ELSE <<>>

\* onPress={() => setActiveTab(tab.key)} on a tab of the bar.  The screen of
\* the tab that is left is unmounted and its state discarded, its calls in
\* flight running on; the screen of the new tab is constructed when it is
\* rendered.
SetActiveTab(k) ==
    /\ DashboardShown
    /\ \E n \in 1..Len(TabKeys(user)) : TabKeys(user)[n] = k
    /\ k # activeTab
    /\ activeTab' = k
    /\ orphanCalls' = orphanCalls \o CallsOfTab
    /\ Len(orphanCalls') <= MaxOrphans
    /\ alert' = <<>>
    /\ IF activeTab = "jobs"
       THEN /\ jobsMounted' = FALSE
            /\ jobs' = <<>>
            /\ jobsLoading' = TRUE
            /\ searchText' = <<>>
            /\ selectedJobType' = ""
            /\ filteredJobs' = <<>>
            /\ filterDirty' = TRUE
            /\ fetchCalls' = <<>>
            /\ applyCalls' = <<>>
            /\ UNCHANGED jobsUser
       ELSE UNCHANGED jobsVars
    /\ IF activeTab = "applications"
       THEN /\ appsMounted' = FALSE
            /\ applications' = <<>>
            /\ appsLoading' = TRUE
            /\ appsCall' = [pc |-> "idle", token |-> NULL, endpoint |-> NULL]
            /\ UNCHANGED appsUser
       ELSE UNCHANGED appsVars
    /\ IF activeTab = "post"
       THEN /\ postForm' = PostDefaults(postUser)
            /\ postLoading' = FALSE
            /\ postCall' = IdlePost
            /\ UNCHANGED postUser
       ELSE UNCHANGED postVars
    /\ UNCHANGED <<sessionVars, storeVars>>

\* a call of an unmounted screen: getItem resolved and the request is issued
\* with Bearer <token>, or building the body throws: catch, Alert
OrphanGetItem(i) ==
    /\ i \in 1..Len(orphanCalls)
    /\ orphanCalls[i].pc = "getItem"
    /\ IF orphanCalls[i].throws
       THEN /\ alert' = <<PostFallback>>
            /\ orphanCalls' = RemoveAt(orphanCalls, i)
       ELSE /\ alert' = <<>>
            /\ orphanCalls' = [orphanCalls EXCEPT ![i].pc = "request",
                                                  ![i].token = storeToken]
    /\ UNCHANGED <<activeTab, appsVars, postVars, jobsVars, sessionVars,
                   storeVars>>

\* a call of an unmounted screen: its request resolved.  applyToJob raises its
\* Alert and calls fetchJobs(); onSubmit raises its Alert.
OrphanResolve(i) ==
    /\ i \in 1..Len(orphanCalls)
    /\ orphanCalls[i].pc = "request"
    /\ alert' = IF orphanCalls[i].op = "applyToJob" THEN <<ApplySucceeded>>
                ELSE IF orphanCalls[i].op = "onSubmit" THEN <<JobPosted>>
                ELSE <<>>
    /\ orphanCalls' =
          IF orphanCalls[i].op = "applyToJob"
          THEN [orphanCalls EXCEPT ![i] = [op |-> "fetchJobs", pc |-> "getItem",
                                           token |-> NULL, throws |-> FALSE]]
          ELSE RemoveAt(orphanCalls, i)
    /\ UNCHANGED <<activeTab, appsVars, postVars, jobsVars, sessionVars,
                   storeVars>>

\* a call of an unmounted screen: getItem or its request rejected: catch, Alert
OrphanReject(i, detail) ==
    /\ i \in 1..Len(orphanCalls)
    /\ orphanCalls[i].pc = "getItem" => detail = NULL
    /\ alert' = IF orphanCalls[i].op = "fetchJobs" THEN <<LoadJobsFailed>>
                ELSE IF orphanCalls[i].op = "fetchApplications"
                THEN <<LoadApplicationsFailed>>
                ELSE IF orphanCalls[i].op = "applyToJob"
                THEN <<OrElse(detail, ApplyFallback)>>
                ELSE <<OrElse(detail, PostFallback)>>
    /\ orphanCalls' = RemoveAt(orphanCalls, i)
    /\ UNCHANGED <<activeTab, appsVars, postVars, jobsVars, sessionVars,
                   storeVars>>

(***************************************************************************)
(* Index, one state update at a time.  The updates a handler makes after   *)
(* an await are rendered one by one when React does not batch them; the    *)
(* actions below are the handlers' last steps with a render after each     *)
(* update.                                                                 *)
(***************************************************************************)
\* handleLogin: setItem('user_data') resolved: setUser(userData)
HandleLoginSetUser ==
    /\ submit.pc = "setUser"
    /\ storeUser' = JSONStringify(Profile(submit.user))
    /\ user' = submit.user
    /\ submit' = [submit EXCEPT !.pc = "setIsAuthenticated"]
    /\ alert' = <<>>
    /\ UNCHANGED <<isAuthenticated, appLoading, checkCall, logoutPc, isLogin,
                   activePortal, authLoading, form, storeToken, jobsVars,
                   screenVars>>

\* handleLogin: setIsAuthenticated(true); back in onSubmit: the success
\* Alert and finally
HandleLoginSetIsAuthenticated ==
    /\ submit.pc = "setIsAuthenticated"
    /\ isAuthenticated' = TRUE
    /\ alert' = <<SuccessMessage(submit.isLogin)>>
    /\ isLogin' = TRUE
    /\ activePortal' = "professional"
    /\ authLoading' = FALSE
    /\ form' = EmptyForm
    /\ submit' = IdleSubmit
    /\ UNCHANGED <<user, appLoading, checkCall, logoutPc, storeVars, jobsVars,
                   screenVars>>

\* checkAuthStatus: both keys read and the profile parsed: setUser(parsedUser)
CheckAuthStatusSetUser ==
    /\ checkCall.pc = "getUser"
    /\ checkCall.token # NULL /\ storeUser # NULL /\ JSONParse(storeUser).ok
    /\ user' = UserOf(JSONParse(storeUser).value)
    /\ checkCall' = [checkCall EXCEPT !.pc = "setIsAuthenticated"]
    /\ alert' = <<>>
    /\ UNCHANGED <<isAuthenticated, appLoading, logoutPc, authVars, storeVars,
                   jobsVars, screenVars>>

\* checkAuthStatus: setIsAuthenticated(true)
CheckAuthStatusSetIsAuthenticated ==
    /\ checkCall.pc = "setIsAuthenticated"
    /\ isAuthenticated' = TRUE
    /\ checkCall' = [checkCall EXCEPT !.pc = "finally"]
    /\ alert' = <<>>
    /\ UNCHANGED <<user, appLoading, logoutPc, authVars, storeVars, jobsVars,
                   screenVars>>

\* checkAuthStatus: finally: setLoading(false)
CheckAuthStatusFinally ==
    /\ checkCall.pc = "finally"
    /\ appLoading' = FALSE
    /\ checkCall' = [checkCall EXCEPT !.pc = "done"]
    /\ alert' = <<>>
    /\ UNCHANGED <<isAuthenticated, user, logoutPc, authVars, storeVars,
                   jobsVars, screenVars>>

\* handleLogout: removeItem('user_data') resolved: setUser(null)
HandleLogoutSetUser ==
    /\ logoutPc = "removeUser"
    /\ storeUser' = NULL
    /\ user' = NULL
    /\ logoutPc' = "setIsAuthenticated"
    /\ alert' = <<>>
    /\ UNCHANGED <<isAuthenticated, appLoading, checkCall, authVars, storeToken,
                   jobsVars, screenVars>>

\* handleLogout: setIsAuthenticated(false)
HandleLogoutSetIsAuthenticated ==
    /\ logoutPc = "setIsAuthenticated"
    /\ isAuthenticated' = FALSE
    /\ logoutPc' = "idle"
    /\ alert' = <<>>
    /\ UNCHANGED <<user, appLoading, checkCall, authVars, storeVars, jobsVars,
                   screenVars>>

\* a handler is between two of its state updates
UpdatePending ==
    \/ submit.pc = "setIsAuthenticated"
    \/ checkCall.pc \in {"setIsAuthenticated", "finally"}
    \/ logoutPc = "setIsAuthenticated"

(***************************************************************************)
(* The process                                                             *)
(***************************************************************************)
\* The process is ended and started again: every component is constructed
\* anew, AsyncStorage keeps its keys, and the mount effect of Index calls
\* checkAuthStatus.  Calls in flight end with the process.
ColdStart ==
    /\ isAuthenticated' = FALSE
    /\ user' = NULL
    /\ appLoading' = TRUE
    /\ checkCall' = [pc |-> "getToken", token |-> NULL]
    /\ logoutPc' = "idle"
    /\ isLogin' = TRUE
    /\ activePortal' = "professional"
    /\ authLoading' = FALSE
    /\ form' = EmptyForm
    /\ submit' = IdleSubmit
    /\ jobsMounted' = FALSE
    /\ jobsUser' = NULL
    /\ jobs' = <<>>
    /\ jobsLoading' = TRUE
    /\ searchText' = <<>>
    /\ selectedJobType' = ""
    /\ filteredJobs' = <<>>
    /\ filterDirty' = TRUE
    /\ fetchCalls' = <<>>
    /\ applyCalls' = <<>>
    /\ appsMounted' = FALSE
    /\ appsUser' = NULL
    /\ applications' = <<>>
    /\ appsLoading' = TRUE
    /\ appsCall' = [pc |-> "idle", token |-> NULL, endpoint |-> NULL]
    /\ postUser' = NULL
    /\ postForm' = PostDefaults(NULL)
    /\ postLoading' = FALSE
    /\ postCall' = IdlePost
    /\ activeTab' = "jobs"
    /\ orphanCalls' = <<>>
    /\ alert' = <<>>
    /\ UNCHANGED storeVars

\* a fresh install: nothing stored, the cold-start check running
InitAuth ==
    /\ IndexInitial
    /\ AuthScreenInitial
    /\ JobsScreenInitial
    /\ jobsUser = NULL
    /\ ApplicationsScreenInitial
    /\ appsUser = NULL
    /\ JobPostingScreenInitial
    /\ postUser = NULL
    /\ DashboardScreenInitial
    /\ postForm = PostDefaults(NULL)
    /\ alert = <<>>
    /\ orphanCalls = <<>>
    /\ storeToken = NULL
    /\ storeUser = NULL

NextAuth ==
    \/ \E f \in Fields : \E v \in FieldValues(f) : AuthSetField(f, v)
    \/ \E p \in {"professional", "client"} : SetActivePortal(p)
    \/ ToggleMode
    \/ OnSubmit
    \/ \E t \in Tokens : OnSubmitPostResolve(t)
    \/ OnSubmitPostNoToken
    \/ \E d \in AuthDetails : OnSubmitReject(d)
    \/ \E u \in Users : OnSubmitMeResolve(u)
    \/ HandleLoginTokenStored
    \/ HandleLoginUserStored
    \/ HandleLoginStoreReject
    \/ CheckAuthStatusToken
    \/ CheckAuthStatusUser
    \/ CheckAuthStatusReject
    \/ HandleLogout
    \/ HandleLogoutTokenRemoved
    \/ HandleLogoutUserRemoved
    \/ HandleLogoutReject

SpecAuth == InitAuth /\ [][NextAuth]_vars

\* a JobsScreen constructed inside the Dashboard of an established session
InitJobs ==
    /\ JobsScreenInitial
    /\ jobsUser \in Users
    /\ AuthScreenInitial
    /\ isAuthenticated = TRUE
    /\ user = jobsUser
    /\ appLoading = FALSE
    /\ checkCall = [pc |-> "done", token |-> NULL]
    /\ logoutPc = "idle"
    /\ ApplicationsScreenInitial
    /\ appsUser = jobsUser
    /\ JobPostingScreenInitial
    /\ postUser = jobsUser
    /\ postForm = PostDefaults(jobsUser)
    /\ DashboardScreenInitial
    /\ alert = <<>>
    /\ orphanCalls = <<>>
    /\ storeToken = "t1"
    /\ storeUser = UserData(jobsUser)

NextJobs ==
    \/ JobsScreenMount
    \/ FilterEffect
    \/ \E t \in SearchTexts : SetSearchText(t)
    \/ \E c \in JobTypeValues : SetSelectedJobType(c)
    \/ \E i \in 1..MaxFetches : FetchJobsGetItem(i)
    \/ \E i \in 1..MaxFetches, J \in JobLists : FetchJobsResolve(i, J)
    \/ \E i \in 1..MaxFetches : FetchJobsReject(i)
    \/ \E id \in JobIds : ApplyToJob(id)
    \/ \E i \in 1..MaxApplies : ApplyToJobGetItem(i)
    \/ fetchCalls = <<>> /\ \E i \in 1..MaxApplies : ApplyToJobResolve(i)
    \/ \E i \in 1..MaxApplies, d \in Details : ApplyToJobReject(i, d)
    \/ \E i \in 1..MaxApplies : ApplyToJobGetItemReject(i)

\* JobsScreen with every filter input; the response to an application arrives
\* while no fetchJobs call is in flight (SpecDashboard has the overlapping calls)
SpecJobs == InitJobs /\ [][NextJobs]_vars

\* the response bodies of GET /api/jobs drawn in SpecDashboard
RefetchLists == {<<>>, <<HygienistAM(0)>>, <<HygienistAM(1)>>}

\* the Dashboard of an established session.  It shows one tab at a time; the
\* state of JobsScreen and of ApplicationsScreen is kept side by side, a
\* screen's calls running on after its tab was left
InitDashboard ==
    /\ JobsScreenInitial
    /\ jobsUser \in Users
    /\ ApplicationsScreenInitial
    /\ appsUser = jobsUser
    /\ JobPostingScreenInitial
    /\ postUser = jobsUser
    /\ postForm = PostDefaults(jobsUser)
    /\ DashboardScreenInitial
    /\ AuthScreenInitial
    /\ isAuthenticated = TRUE
    /\ user = jobsUser
    /\ appLoading = FALSE
    /\ checkCall = [pc |-> "done", token |-> NULL]
    /\ logoutPc = "idle"
    /\ alert = <<>>
    /\ orphanCalls = <<>>
    /\ storeToken = "t1"
    /\ storeUser = UserData(jobsUser)

NextDashboard ==
    \/ JobsScreenMount
    \/ FilterEffect
    \/ \E i \in 1..MaxFetches : FetchJobsGetItem(i)
    \/ \E i \in 1..MaxFetches, J \in RefetchLists : FetchJobsResolve(i, J)
    \/ \E i \in 1..MaxFetches : FetchJobsReject(i)
    \/ \E id \in JobIds : ApplyToJob(id)
    \/ \E i \in 1..MaxApplies : ApplyToJobGetItem(i)
    \/ \E i \in 1..MaxApplies : ApplyToJobResolve(i)
    \/ \E i \in 1..MaxApplies : ApplyToJobReject(i, NULL)
    \/ ApplicationsScreenMount
    \/ FetchApplicationsGetItem
    \/ \E A \in ApplicationLists : FetchApplicationsResolve(A)
    \/ FetchApplicationsReject

SpecDashboard == InitDashboard /\ [][NextDashboard]_vars

\* the post tab of a client's Dashboard: a fresh form or a draft with the
\* plain required fields typed in
InitPost ==
    /\ postUser \in PostUsers
    /\ postForm \in {PostDefaults(postUser), FilledDraft(postUser)}
    /\ activeTab = "post"
    /\ JobPostingScreenInitial
    /\ JobsScreenInitial
    /\ jobsUser = postUser
    /\ ApplicationsScreenInitial
    /\ appsUser = postUser
    /\ AuthScreenInitial
    /\ isAuthenticated = TRUE
    /\ user = postUser
    /\ appLoading = FALSE
    /\ checkCall = [pc |-> "done", token |-> NULL]
    /\ logoutPc = "idle"
    /\ alert = <<>>
    /\ orphanCalls = <<>>
    /\ storeToken = "t1"
    /\ storeUser = UserData(postUser)

\* the inputs stay editable while a submit is in flight; the model then edits
\* the title only
NextPost ==
    \/ ~postLoading /\ \E f \in PostEditedFields :
                          \E v \in PostFieldValues(f) : JobPostingSetField(f, v)
    \/ postLoading /\ \E v \in PostFieldValues("title") :
                         JobPostingSetField("title", v)
    \/ ~postLoading /\ \E d \in DayPool : JobPostingToggleDay(d)
    \/ JobPostingOnSubmit
    \/ JobPostingGetItem
    \/ JobPostingResolve
    \/ \E d \in PostDetails : JobPostingReject(d)

SpecPost == InitPost /\ [][NextPost]_vars

\* a draft that passes the required rules
ValidDraft(u) ==
    [FilledDraft(u) EXCEPT !["hourly_rate"] = <<"7", ".", "5">>,
                           !["job_date"] = "2025-03-01"]

\* the Dashboard of an established session with Sign Out: the screens'
\* operations, one response each, interleaved with handleLogout.  An
\* operation started before Sign Out runs on after it
InitSignOut ==
    /\ JobsScreenInitial
    /\ jobsUser \in Users
    /\ ApplicationsScreenInitial
    /\ appsUser = jobsUser
    /\ JobPostingScreenInitial
    /\ postUser = jobsUser
    /\ postForm = IF Role(jobsUser) = "client" THEN ValidDraft(jobsUser)
                                              ELSE PostDefaults(jobsUser)
    /\ DashboardScreenInitial
    /\ AuthScreenInitial
    /\ isAuthenticated = TRUE
    /\ user = jobsUser
    /\ appLoading = FALSE
    /\ checkCall = [pc |-> "done", token |-> NULL]
    /\ logoutPc = "idle"
    /\ alert = <<>>
    /\ orphanCalls = <<>>
    /\ storeToken = "t1"
    /\ storeUser = UserData(jobsUser)

NextSignOut ==
    \/ JobsScreenMount
    \/ FilterEffect
    \/ \E i \in 1..MaxFetches : FetchJobsGetItem(i)
    \/ \E i \in 1..MaxFetches : FetchJobsResolve(i, <<HygienistAM(0)>>)
    \/ \E id \in JobIds : ApplyToJob(id)
    \/ \E i \in 1..MaxApplies : ApplyToJobGetItem(i)
    \/ \E i \in 1..MaxApplies : ApplyToJobResolve(i)
    \/ ApplicationsScreenMount
    \/ FetchApplicationsGetItem
    \/ FetchApplicationsResolve(<<>>)
    \/ JobPostingOnSubmit
    \/ JobPostingGetItem
    \/ JobPostingResolve
    \/ HandleLogout
    \/ HandleLogoutTokenRemoved
    \/ HandleLogoutUserRemoved

SpecSignOut == InitSignOut /\ [][NextSignOut]_vars

\* a user_data text cut short by the device: not a JSON text
TruncatedUserData == SubSeq(UserData("pro1"), 1, 12)

\* what the device holds when the process starts: nothing, the session of
\* an earlier run, or a session whose user_data is damaged
StoredSessions == {<<NULL, NULL>>, <<"t1", UserData("pro1")>>,
                   <<"t1", TruncatedUserData>>}

\* the credentials typed into the login form
Credentials(f) == IF f = "email" THEN "a@b.c" ELSE "abc123"

\* a process start over any of the stored sessions
InitSession ==
    /\ IndexInitial
    /\ AuthScreenInitial
    /\ JobsScreenInitial
    /\ jobsUser = NULL
    /\ ApplicationsScreenInitial
    /\ appsUser = NULL
    /\ JobPostingScreenInitial
    /\ postUser = NULL
    /\ postForm = PostDefaults(NULL)
    /\ DashboardScreenInitial
    /\ alert = <<>>
    /\ orphanCalls = <<>>
    /\ \E s \in StoredSessions : storeToken = s[1] /\ storeUser = s[2]

\* the session lifecycle: the cold-start check, login with typed credentials,
\* Sign Out, storage calls that resolve or reject, and process restarts.  The
\* screens of the Dashboard are not operated.
NextSession ==
    \/ \E f \in {"email", "password"} : AuthSetField(f, Credentials(f))
    \/ OnSubmit
    \/ \E t \in Tokens : OnSubmitPostResolve(t)
    \/ OnSubmitPostNoToken
    \/ OnSubmitReject(NULL)
    \/ \E u \in Users : OnSubmitMeResolve(u)
    \/ HandleLoginTokenStored
    \/ HandleLoginUserStored
    \/ HandleLoginStoreReject
    \/ CheckAuthStatusToken
    \/ CheckAuthStatusUser
    \/ CheckAuthStatusReject
    \/ HandleLogout
    \/ HandleLogoutTokenRemoved
    \/ HandleLogoutUserRemoved
    \/ HandleLogoutReject
    \/ ColdStart

SpecSession == InitSession /\ [][NextSession]_vars

\* the session lifecycle with every state update of Index rendered on its
\* own.  Nothing else runs between two updates of one handler: they are
\* consecutive statements.
NextShell ==
    \/ HandleLoginSetUser
    \/ HandleLoginSetIsAuthenticated
    \/ CheckAuthStatusSetUser
    \/ CheckAuthStatusSetIsAuthenticated
    \/ CheckAuthStatusFinally
    \/ HandleLogoutSetUser
    \/ HandleLogoutSetIsAuthenticated
    \/ /\ ~UpdatePending
       /\ \/ \E f \in {"email", "password"} : AuthSetField(f, Credentials(f))
          \/ OnSubmit
          \/ \E t \in Tokens : OnSubmitPostResolve(t)
          \/ OnSubmitPostNoToken
          \/ OnSubmitReject(NULL)
          \/ \E u \in Users : OnSubmitMeResolve(u)
          \/ HandleLoginTokenStored
          \/ HandleLoginStoreReject
          \/ CheckAuthStatusToken
          \/ ~(checkCall.token # NULL /\ storeUser # NULL /\ JSONParse(storeUser).ok)
                /\ CheckAuthStatusUser
          \/ CheckAuthStatusReject
          \/ HandleLogout
          \/ HandleLogoutTokenRemoved
          \/ HandleLogoutReject
          \/ ColdStart

SpecShell == InitSession /\ [][NextShell]_vars

\* the users a Dashboard is rendered for: a professional, two clients, and
\* a user whose role is neither
DashboardUsers == Users \cup PostUsers \cup {"adm1"}

\* the Dashboard of an established session, on the tab it starts with, or,
\* for a client, on the Post Job tab with a draft typed in
InitTabs ==
    /\ JobsScreenInitial
    /\ jobsUser \in DashboardUsers
    /\ ApplicationsScreenInitial
    /\ appsUser = jobsUser
    /\ JobPostingScreenInitial
    /\ postUser = jobsUser
    /\ \/ DashboardScreenInitial /\ postForm = PostDefaults(jobsUser)
       \/ /\ Role(jobsUser) = "client"
          /\ activeTab = "post"
          /\ postForm = ValidDraft(jobsUser)
    /\ AuthScreenInitial
    /\ isAuthenticated = TRUE
    /\ user = jobsUser
    /\ appLoading = FALSE
    /\ checkCall = [pc |-> "done", token |-> NULL]
    /\ logoutPc = "idle"
    /\ alert = <<>>
    /\ orphanCalls = <<>>
    /\ storeToken = "t1"
    /\ storeUser = UserData(jobsUser)

\* the tab bar and the screens behind it: a screen is mounted and operated
\* while its tab is the one rendered; every request is answered
NextTabs ==
    \/ \E k \in {"jobs", "post", "applications", "profile"} : SetActiveTab(k)
    \/ TabContent = "JobsScreen" /\ JobsScreenMount
    \/ TabContent = "JobsScreen" /\ FilterEffect
    \/ \E i \in 1..MaxFetches : FetchJobsGetItem(i)
    \/ \E i \in 1..MaxFetches : FetchJobsResolve(i, <<HygienistAM(0)>>)
    \/ TabContent = "JobsScreen" /\ \E id \in JobIds : ApplyToJob(id)
    \/ \E i \in 1..MaxApplies : ApplyToJobGetItem(i)
    \/ \E i \in 1..MaxApplies : ApplyToJobResolve(i)
    \/ TabContent = "ApplicationsScreen" /\ ApplicationsScreenMount
    \/ FetchApplicationsGetItem
    \/ FetchApplicationsResolve(<<>>)
    \/ TabContent = "JobPostingScreen" /\ JobPostingOnSubmit
    \/ JobPostingGetItem
    \/ JobPostingResolve
    \/ \E i \in 1..MaxOrphans : OrphanGetItem(i)
    \/ \E i \in 1..MaxOrphans : OrphanResolve(i)
    \/ \E i \in 1..MaxOrphans : OrphanReject(i, NULL)

SpecTabs == InitTabs /\ [][NextTabs]_vars

\* the order in which the model types a job into the form
DraftOrder == <<"title", "job_type", "hourly_rate", "job_date", "start_time",
                "end_time">>

\* the n-th field of the draft is typed once the fields before it are
TypeDraft(n) ==
    /\ \A m \in 1..(n - 1) :
          postForm[DraftOrder[m]] = ValidDraft(postUser)[DraftOrder[m]]
    /\ JobPostingSetField(DraftOrder[n], ValidDraft(postUser)[DraftOrder[n]])

\* the screen rendered for activeTab belongs to the session the
\* specification started with
Operated(screen) == jobsUser = user /\ TabContent = screen

\* a process start on a fresh install or over a stored session of cli1, or
\* the Dashboard of an established
\* session of pro1 or of cli1
InitApp ==
    /\ \/ /\ jobsUser = NULL
          /\ isAuthenticated = FALSE
          /\ appLoading = TRUE
          /\ checkCall = [pc |-> "getToken", token |-> NULL]
          /\ \E s \in {<<NULL, NULL>>, <<"t2", UserData("cli1")>>} :
                /\ storeToken = s[1]
                /\ storeUser = s[2]
       \/ /\ jobsUser \in Users
          /\ isAuthenticated = TRUE
          /\ appLoading = FALSE
          /\ checkCall = [pc |-> "done", token |-> NULL]
          /\ storeToken = "t1"
          /\ storeUser = UserData(jobsUser)
    /\ user = jobsUser
    /\ appsUser = jobsUser
    /\ postUser = jobsUser
    /\ postForm = PostDefaults(jobsUser)
    /\ JobsScreenInitial
    /\ ApplicationsScreenInitial
    /\ JobPostingScreenInitial
    /\ DashboardScreenInitial
    /\ AuthScreenInitial
    /\ logoutPc = "idle"
    /\ alert = <<>>
    /\ orphanCalls = <<>>

\* every operation that sets a loading flag, with a response that resolves
\* or rejects: the cold-start check and a login on the fresh install; the
\* screen loads and Post Job behind the tab bar in the established sessions,
\* and the calls of the screens a tab press has left.  The Dashboard a login
\* leads to is not operated.
NextLoads ==
    \/ CheckAuthStatusToken
    \/ CheckAuthStatusUser
    \/ CheckAuthStatusReject
    \/ \E f \in {"email", "password"} : AuthSetField(f, Credentials(f))
    \/ OnSubmit
    \/ OnSubmitPostResolve("t1")
    \/ OnSubmitPostNoToken
    \/ OnSubmitReject(NULL)
    \/ OnSubmitMeResolve("pro1")
    \/ HandleLoginTokenStored
    \/ HandleLoginUserStored
    \/ HandleLoginStoreReject
    \/ jobsUser = user /\ \E k \in {"jobs", "post", "applications", "profile"} :
                             SetActiveTab(k)
    \/ Operated("JobsScreen") /\ JobsScreenMount
    \/ Operated("JobsScreen") /\ FilterEffect
    \/ \E i \in 1..MaxFetches : FetchJobsGetItem(i)
    \/ \E i \in 1..MaxFetches : FetchJobsResolve(i, <<HygienistAM(0)>>)
    \/ \E i \in 1..MaxFetches : FetchJobsReject(i)
    \/ Operated("ApplicationsScreen") /\ ApplicationsScreenMount
    \/ FetchApplicationsGetItem
    \/ FetchApplicationsResolve(<<>>)
    \/ FetchApplicationsReject
    \/ Operated("JobPostingScreen") /\ \E n \in 1..Len(DraftOrder) : TypeDraft(n)
    \/ Operated("JobPostingScreen") /\ JobPostingOnSubmit
    \/ JobPostingGetItem
    \/ JobPostingResolve
    \/ JobPostingReject(NULL)
    \/ \E i \in 1..MaxOrphans : OrphanGetItem(i)
    \/ \E i \in 1..MaxOrphans : OrphanResolve(i)
    \/ \E i \in 1..MaxOrphans : OrphanReject(i, NULL)

\* the Apply button of the JobsScreen and what follows a press
NextApplies ==
    \/ Operated("JobsScreen") /\ \E id \in JobIds : ApplyToJob(id)
    \/ \E i \in 1..MaxApplies : ApplyToJobGetItem(i)
    \/ \E i \in 1..MaxApplies : ApplyToJobResolve(i)
    \/ \E i \in 1..MaxApplies, d \in Details : ApplyToJobReject(i, d)
    \/ \E i \in 1..MaxApplies : ApplyToJobGetItemReject(i)

\* every operation that sends a request
NextApp == NextLoads \/ NextApplies

SpecApp == InitApp /\ [][NextApp]_vars

\* a pending promise of each operation that sets a loading flag settles, one
\* way or the other, and the event loop runs its continuation
CheckAuthStatusSettles ==
    CheckAuthStatusToken \/ CheckAuthStatusUser \/ CheckAuthStatusReject

OnSubmitSettles ==
    \/ OnSubmitPostResolve("t1")
    \/ OnSubmitPostNoToken
    \/ OnSubmitReject(NULL)
    \/ OnSubmitMeResolve("pro1")
    \/ HandleLoginTokenStored
    \/ HandleLoginUserStored
    \/ HandleLoginStoreReject

FetchJobsSettles ==
    \E i \in 1..MaxFetches :
        \/ FetchJobsGetItem(i)
        \/ FetchJobsResolve(i, <<HygienistAM(0)>>)
        \/ FetchJobsReject(i)

FetchApplicationsSettles ==
    FetchApplicationsGetItem \/ FetchApplicationsResolve(<<>>) \/ FetchApplicationsReject

JobPostingSettles ==
    JobPostingGetItem \/ JobPostingResolve \/ JobPostingReject(NULL)

\* the operations that set a loading flag, in which no pending promise stays
\* pending for ever and React runs a pending effect; what the user does is
\* under no obligation
SpecAppLive ==
    /\ InitApp
    /\ [][NextLoads]_vars
    /\ WF_vars(CheckAuthStatusSettles)
    /\ WF_vars(OnSubmitSettles)
    /\ WF_vars(Operated("JobsScreen") /\ FilterEffect)
    /\ WF_vars(FetchJobsSettles)
    /\ WF_vars(FetchApplicationsSettles)
    /\ WF_vars(JobPostingSettles)

(***************************************************************************)
(* Properties of JobsScreen                                                *)
(***************************************************************************)
\* two characters are the same letter up to case
SameLetter(a, b) ==
    \/ a = b
    \/ \E n \in 1..Len(UpperChars) : {a, b} = {UpperChars[n], LowerChars[n]}

\* t occurs in s at some offset, comparing letters without regard to case
OccursIgnoringCase(s, t) ==
    \E k \in 0..(Len(s) - Len(t)) : \A n \in 1..Len(t) : SameLetter(s[k + n], t[n])

\* the text predicate of the contract
TextMatches(job, t) ==
    \/ t = <<>>
    \/ OccursIgnoringCase(job.title, t)
    \/ OccursIgnoringCase(job.location_city, t)
    \/ OccursIgnoringCase(job.location_state, t)

\* the category predicate of the contract
TypeMatches(job, c) == c = "" \/ job.job_type = c

\* F is J with some positions deleted: a strictly increasing map of
\* positions of F to positions of J carries every element of F
IsSubsequence(F, J) ==
    \E pos \in [1..Len(F) -> 1..Len(J)] :
        /\ \A a, b \in 1..Len(F) : a < b => pos[a] < pos[b]
        /\ \A a \in 1..Len(F) : F[a] = J[pos[a]]

\* C1: once filterJobs has run for the current jobs, searchText and
\* selectedJobType, filteredJobs is a subsequence of jobs (same order, nothing
\* foreign, nothing duplicated) and each of its elements satisfies the text
\* predicate and the category predicate.
C1_FilterSound ==
    ~filterDirty =>
        /\ IsSubsequence(filteredJobs, jobs)
        /\ \A k \in 1..Len(filteredJobs) :
              /\ TextMatches(filteredJobs[k], searchText)
              /\ TypeMatches(filteredJobs[k], selectedJobType)

C1_Witness ==
    /\ ~filterDirty
    /\ searchText # <<>>
    /\ selectedJobType # ""
    /\ Len(jobs) = 2
    /\ Len(filteredJobs) = 1

\* C2: once filterJobs has run, every job of jobs that satisfies the text
\* predicate and the category predicate is in filteredJobs; for
\* jobs = [Hygienist AM / Austin, Front Desk PM / Dallas], text "desk" and no
\* category the result is exactly [Front Desk PM].
C2_FilterComplete ==
    ~filterDirty =>
        /\ \A i \in 1..Len(jobs) :
              (TextMatches(jobs[i], searchText) /\ TypeMatches(jobs[i], selectedJobType))
                  => \E k \in 1..Len(filteredJobs) : filteredJobs[k] = jobs[i]
        /\ (/\ jobs = <<HygienistAM(0), FrontDeskPM(1)>>
            /\ searchText = <<"d","e","s","k">>
            /\ selectedJobType = "")
               => filteredJobs = <<FrontDeskPM(1)>>

C2_Witness ==
    /\ ~filterDirty
    /\ jobs = <<HygienistAM(0), FrontDeskPM(1)>>
    /\ searchText = <<"d","e","s","k">>
    /\ selectedJobType = ""
    /\ filteredJobs = <<FrontDeskPM(1)>>

\* C3: with empty search text and the empty category sentinel filterJobs is
\* the identity: filteredJobs is jobs, element for element.
C3_FilterIdentity ==
    (~filterDirty /\ searchText = <<>> /\ selectedJobType = "")
        => filteredJobs = jobs

C3_Witness ==
    /\ ~filterDirty
    /\ searchText = <<>>
    /\ selectedJobType = ""
    /\ Len(jobs) = 2
    /\ filteredJobs = jobs

\* the filter of the contract: the jobs satisfying both predicates, in order
ContractFilter(J, t, c) ==
    SelectSeq(J, LAMBDA job : TextMatches(job, t) /\ TypeMatches(job, c))

\* C4: after any sequence of job-list replacements, search-text edits and
\* category selections, whenever no filter effect is pending filteredJobs is
\* the contract's filter of the current jobs, searchText and selectedJobType.
C4_FilteredViewCurrent ==
    ~filterDirty => filteredJobs = ContractFilter(jobs, searchText, selectedJobType)

C4_Witness ==
    /\ ~filterDirty
    /\ jobs = <<FrontDeskPM(1), HygienistAM(1)>>
    /\ searchText = <<"t","x">>
    /\ selectedJobType = "dental_hygienist"
    /\ filteredJobs = <<HygienistAM(1)>>

\* C5: the step in which applyToJob handles a rejected POST issues no
\* fetchJobs call and leaves jobs (so every applications_count) as it was,
\* and the alert is the server's detail when the response carries a
\* non-empty one, else the generic fallback.
C5_ApplyFailureKeepsJobs ==
    [][\A i \in 1..MaxApplies, d \in Details :
          ApplyToJobReject(i, d) =>
              /\ jobs' = jobs
              /\ fetchCalls' = fetchCalls
              /\ alert' = <<IF d \in {NULL, ""} THEN ApplyFallback ELSE d>>]_vars

C5_Witness ==
    /\ alert = <<"Already applied">>
    /\ applyCalls = <<>>
    /\ Len(jobs) > 0

\* C6: the step in which applyToJob handles a resolved POST starts a
\* fetchJobs call and leaves jobs as it was; jobs (so any
\* applications_count) changes only in a step that stores the body of a
\* GET /api/jobs response.
C6_RefetchNoLocalIncrement ==
    [][/\ \A i \in 1..MaxApplies :
             ApplyToJobResolve(i) =>
                 /\ jobs' = jobs
                 /\ Len(fetchCalls') = Len(fetchCalls) + 1
                 /\ fetchCalls'[Len(fetchCalls')].pc = "getItem"
       /\ jobs' # jobs =>
             \E i \in 1..Len(fetchCalls) :
                 fetchCalls[i].pc = "get" /\ FetchJobsResolve(i, jobs')]_vars

C6_Witness ==
    /\ alert = <<ApplySucceeded>>
    /\ applyCalls = <<>>
    /\ Len(fetchCalls) = 1
    /\ fetchCalls[1].pc = "getItem"
    /\ fetchCalls[1].token = NULL
    /\ \E k \in 1..Len(jobs) : jobs[k].id = 1 /\ jobs[k].applications_count = 0

(***************************************************************************)
(* Properties of AuthScreen and Index                                      *)
(***************************************************************************)
\* C7: session establishment is two steps.  A login or register response
\* with access_token t is followed by GET /api/auth/me carrying Bearer t and
\* writes nothing; handleLogin is entered only from a resolved /auth/me and
\* with that token; a rejected /auth/me leaves isAuthenticated false and the
\* session store unwritten; the store is written only inside handleLogin or
\* handleLogout.
C7_TwoStepSession ==
    [][/\ \A t \in Tokens :
             OnSubmitPostResolve(t) =>
                 /\ submit'.pc = "me"
                 /\ submit'.bearer = t
                 /\ isAuthenticated' = isAuthenticated
                 /\ storeToken' = storeToken /\ storeUser' = storeUser
       /\ (submit'.pc = "setToken" /\ submit.pc # "setToken") =>
             /\ submit.pc = "me"
             /\ submit'.token = submit.bearer
       /\ \A d \in AuthDetails :
             (submit.pc = "me" /\ OnSubmitReject(d)) =>
                 /\ ~isAuthenticated'
                 /\ submit'.pc = "idle"
                 /\ storeToken' = storeToken /\ storeUser' = storeUser
       /\ (storeToken' # storeToken \/ storeUser' # storeUser) =>
             submit.pc \in {"setToken", "setUser"} \/ logoutPc # "idle"
       /\ (isAuthenticated' /\ ~isAuthenticated) =>
             submit.pc = "setUser" \/ checkCall.pc = "getUser"]_vars

C7_Witness ==
    /\ alert = <<WelcomeBack>>
    /\ isAuthenticated
    /\ user # NULL
    /\ storeToken \in Tokens
    /\ storeUser = UserData(user)

\* C8: in register mode a submit with password different from
\* confirmPassword issues no request, raises the mismatch alert, and leaves
\* loading false and the session unestablished; any other accepted submit
\* (login mode whatever confirmPassword holds, or register with equal
\* passwords) issues the POST.
C8_MismatchBlocksSubmit ==
    [][OnSubmit =>
          IF ~isLogin /\ form["password"] # form["confirmPassword"]
          THEN /\ submit'.pc = "idle"
               /\ ~authLoading'
               /\ alert' = <<PasswordMismatch>>
               /\ ~isAuthenticated'
               /\ storeToken' = storeToken /\ storeUser' = storeUser
          ELSE /\ submit'.pc = "post"
               /\ authLoading']_vars

C8_Witness ==
    /\ alert = <<PasswordMismatch>>
    /\ ~isLogin
    /\ form["password"] = "abc123"
    /\ form["confirmPassword"] = "abc124"
    /\ submit.pc = "idle"
    /\ ~authLoading

\* C9: toggleMode flips isLogin and leaves every form field empty,
\* confirmPassword and the role-specific fields included.
C9_ToggleClearsForm ==
    [][ToggleMode =>
          /\ isLogin' = ~isLogin
          /\ \A f \in Fields : form'[f] = ""]_vars

\* a register submission is still in flight, so confirmPassword and the
\* names had been entered, and the mode is login again with an empty form
C9_Witness ==
    /\ submit.pc = "post"
    /\ ~submit.isLogin
    /\ isLogin
    /\ \A f \in Fields : form[f] = ""

\* C10: the authenticated UI is shown only while a bearer token is stored.
C10_AuthenticatedOnlyWithToken ==
    (isAuthenticated /\ user # NULL) => storeToken # NULL

\* C11: handleLogout flips the flags last.  A step that takes isAuthenticated
\* from true to false, or user from a profile to null, is the step in which
\* handleLogout's removeItem('user_data') resolves; the access token was
\* removed before that step and neither key is stored after it.
C11_LogoutFlagsAfterRemoval ==
    [][((isAuthenticated /\ ~isAuthenticated') \/ (user # NULL /\ user' = NULL)) =>
          /\ logoutPc = "removeUser"
          /\ storeToken = NULL
          /\ storeToken' = NULL
          /\ storeUser' = NULL]_vars

\* handleLogout has removed the access token and awaits the removal of the
\* profile: the flags still show the session
C11_Witness ==
    /\ logoutPc = "removeUser"
    /\ storeToken = NULL
    /\ storeUser # NULL
    /\ isAuthenticated
    /\ storeUser = UserData(user)

\* C20: an AuthScreen starts in login mode on the professional portal.
\* Selecting a portal changes activePortal and nothing else of the screen:
\* isLogin, loading and every form value stay.  In register mode the block
\* of the selected portal is the one rendered; with the client portal every
\* client field must be filled for the submit to be accepted, with the
\* professional portal the submit is accepted on the shared fields alone.
C20_PortalSwitchFrame ==
    /\ (isLogin = TRUE /\ activePortal = "professional")
    /\ [][/\ (~AuthShown /\ AuthShown') =>
                (isLogin' /\ activePortal' = "professional")
          /\ \A p \in {"professional", "client"} :
                SetActivePortal(p) =>
                    /\ activePortal' = p
                    /\ isLogin' = isLogin
                    /\ authLoading' = authLoading
                    /\ submit' = submit
                    /\ \A f \in Fields : form'[f] = form[f]
                    /\ Rendered(FALSE, p) \cap (ProfessionalFields \cup ClientFields)
                         = (IF p = "client" THEN ClientFields
                                            ELSE ProfessionalFields)]_vars
    /\ [](~isLogin =>
            /\ (activePortal = "client" /\ \E f \in ClientFields : form[f] = "")
                  => ~FormValid
            /\ (/\ activePortal = "professional"
                /\ form["email"] = "a@b.c"
                /\ Len(form["password"]) >= PasswordMinLength
                /\ \A f \in {"confirmPassword", "first_name", "last_name"} :
                       form[f] # "")
                  => FormValid)

\* a registration filled in on the professional portal, acceptable there with
\* the professional block empty, after the client portal was selected: the
\* entered values are still there and the submit is no longer accepted
C20_Witness ==
    /\ AuthShown
    /\ ~isLogin
    /\ activePortal = "client"
    /\ form["email"] = "a@b.c"
    /\ form["password"] = "abc123"
    /\ form["confirmPassword"] = "abc123"
    /\ form["first_name"] = "x"
    /\ form["last_name"] = "x"
    /\ \A f \in ProfessionalFields \cup ClientFields : form[f] = ""
    /\ ~FormValid

C13_LastIssuedFetchWins ==
    /\ [](jobs \in JobLists)
    /\ [][\A i \in 1..MaxFetches, J \in JobLists :
              FetchJobsResolve(i, J) =>
                  /\ jobs' = J
                  /\ fetchCalls[i].superseded => jobs' = jobs]_vars

\* C17: the endpoint fetchApplications requests and the card renderer of the
\* list are chosen by the same role: my-applications and the job-centric card
\* for a professional, received and the applicant-centric card for a client;
\* a professional's screen never requests the received endpoint.
C17_RoleDispatch ==
    appsCall.pc \in {"get", "done"} /\ appsCall.endpoint # NULL =>
        /\ Role(appsUser) = "professional" =>
              /\ appsCall.endpoint = MyApplications
              /\ appsCall.endpoint # ReceivedApplications
              /\ CardRenderer = "renderProfessionalApplication"
        /\ Role(appsUser) = "client" =>
              /\ appsCall.endpoint = ReceivedApplications
              /\ CardRenderer = "renderClientApplication"

\* a professional's list has arrived from my-applications and is rendered
C17_Witness ==
    /\ Role(appsUser) = "professional"
    /\ appsCall.pc = "done"
    /\ appsCall.endpoint = MyApplications
    /\ ~appsLoading
    /\ Len(applications) = MaxApplications

(***************************************************************************)
(* Properties of JobPostingScreen                                          *)
(***************************************************************************)
\* C14: the body of POST /api/jobs carries a recurrence sub-field only when
\* is_recurring is true, and recurring_days only when is_recurring is true
\* and recurring_pattern is weekly.
C14_RecurrenceOnlyWhenRecurring ==
    postCall.pc = "post" =>
        /\ postCall.body.keys \cap RecurrenceFields # {} =>
              postCall.body.is_recurring
        /\ "recurring_days" \in postCall.body.keys =>
              /\ postCall.body.is_recurring
              /\ postCall.body.recurring_pattern = "weekly"

\* C15: POST /api/jobs is issued only with an hourly_rate that parsed to a
\* positive number: never NaN, zero or a negative number.
C15_OnlyPositiveRatePosted ==
    postCall.pc = "post" =>
        /\ ~postCall.body.hourly_rate.nan
        /\ postCall.body.hourly_rate.hundredths > 0

\* C16 as stated: the success step leaves the location fields at the office
\* address on file, is_recurring false and every other field empty.
C16_SuccessEmptiesOtherFields ==
    [][JobPostingResolve =>
          /\ \A f \in LocationFields :
                postForm'[f] = (IF Office(postUser, f) = NULL
                                THEN "" ELSE Office(postUser, f))
          /\ postForm'["is_recurring"] = FALSE
          /\ postForm'["hourly_rate"] = <<>>
          /\ postForm'["recurring_days"] = {}
          /\ \A f \in PostFields \ (LocationFields \cup
                       {"is_recurring", "hourly_rate", "recurring_days"}) :
                postForm'[f] \in {NULL, ""}]_vars

\* C16 (amended): the success step raises the success alert and leaves every
\* field at its useForm default: the location fields at the office address
\* on file (empty when there is none), is_recurring false, recurring_pattern
\* 'weekly', recurring_days empty, every other field unset.  A failure step
\* (the POST or the token read rejected, or the date conversion throwing)
\* leaves every form value as it is and shows the detail of the response, or
\* the fallback when there is none.  Both set loading to false.
C16_ResetOnSuccessOnly ==
    [][/\ JobPostingResolve =>
             /\ \A f \in LocationFields :
                   postForm'[f] = (IF Office(postUser, f) = NULL
                                   THEN "" ELSE Office(postUser, f))
             /\ postForm'["is_recurring"] = FALSE
             /\ postForm'["recurring_pattern"] = "weekly"
             /\ postForm'["recurring_days"] = {}
             /\ postForm'["hourly_rate"] = <<>>
             /\ \A f \in PostFields \ (LocationFields \cup
                          {"is_recurring", "recurring_pattern", "hourly_rate",
                           "recurring_days"}) :
                   postForm'[f] = NULL
             /\ alert' = <<JobPosted>>
             /\ postLoading' = FALSE
       /\ \A d \in PostDetails :
             JobPostingReject(d) =>
                 /\ postForm' = postForm
                 /\ alert' = <<IF d \in {NULL, ""} THEN PostFallback ELSE d>>
                 /\ postLoading' = FALSE
       /\ (JobPostingGetItem /\ JobDataThrows(postCall.data)) =>
             /\ postForm' = postForm
             /\ alert' = <<PostFallback>>
             /\ postLoading' = FALSE]_vars

\* a job has just been posted by the client with an office address on file:
\* the form is back at the address and the recurrence defaults
C16_Witness ==
    /\ alert = <<JobPosted>>
    /\ postUser = "cli1"
    /\ postForm["location_city"] = "Austin"
    /\ postForm["title"] = NULL
    /\ postForm["recurring_pattern"] = "weekly"
    /\ postForm["is_recurring"] = FALSE
    /\ ~postLoading
    /\ postCall.pc = "idle"

C19_RequestsCarrySessionToken ==
    LET RequestTokens ==
            {fetchCalls[i].token : i \in {k \in 1..Len(fetchCalls) :
                                              fetchCalls[k].pc = "get"}}
              \cup {applyCalls[i].token : i \in {k \in 1..Len(applyCalls) :
                                                    applyCalls[k].pc = "post"}}
              \cup (IF appsCall.pc = "get" THEN {appsCall.token} ELSE {})
              \cup (IF postCall.pc = "post" THEN {postCall.token} ELSE {})
    IN \A t \in RequestTokens :
           /\ t # NULL
           /\ t \in Tokens
           /\ storeToken # NULL => t = storeToken

(***************************************************************************)
(* Properties of the session lifecycle                                     *)
(***************************************************************************)
\* a request of any screen is on the network
RequestInFlight ==
    \/ submit.pc \in {"post", "me"}
    \/ \E i \in 1..Len(fetchCalls) : fetchCalls[i].pc = "get"
    \/ \E i \in 1..Len(applyCalls) : applyCalls[i].pc = "post"
    \/ appsCall.pc = "get"
    \/ postCall.pc = "post"
    \/ \E i \in 1..Len(orphanCalls) : orphanCalls[i].pc = "request"

\* C21: the session store round trip.  A successful handleLogin(token, user)
\* leaves the token and a text that parses back to the user's profile in the
\* store; the store changes only inside handleLogin and handleLogout; an
\* established session whose token is stored is stored as itself; a
\* cold-start check whose reads return both keys restores isAuthenticated
\* with the user the text parses to, and no request is in flight while the
\* check runs.  A successful handleLogout leaves both keys absent, and a
\* cold-start check that finds a key absent leaves isAuthenticated false and
\* user null.
C21_SessionRoundTrip ==
    /\ [][/\ (submit.pc = "setUser" /\ isAuthenticated') =>
               /\ storeToken' = submit.token
               /\ JSONParse(storeUser') = [ok |-> TRUE, value |-> Profile(submit.user)]
               /\ user' = submit.user
          /\ (storeToken' # storeToken \/ storeUser' # storeUser) =>
               \/ submit.pc \in {"setToken", "setUser"}
               \/ logoutPc \in {"removeToken", "removeUser"}
          /\ (CheckAuthStatusUser /\ checkCall.token # NULL /\ storeUser # NULL
                 /\ JSONParse(storeUser).ok) =>
               /\ isAuthenticated' = TRUE
               /\ user' # NULL
               /\ Profile(user') = JSONParse(storeUser).value
               /\ ~RequestInFlight'
          /\ (logoutPc = "removeUser" /\ isAuthenticated /\ ~isAuthenticated'
                 /\ appLoading' = appLoading) =>
               storeToken' = NULL /\ storeUser' = NULL
          /\ (CheckAuthStatusUser /\ (checkCall.token = NULL \/ storeUser = NULL)) =>
               isAuthenticated' = FALSE /\ user' = NULL]_vars
    /\ []((isAuthenticated /\ user # NULL /\ storeToken # NULL) =>
             (storeUser # NULL /\ JSONParse(storeUser) = [ok |-> TRUE, value |-> Profile(user)]))
    /\ [](appLoading => ~RequestInFlight)

\* C21 is witnessed by a cold-start check that read the token t2 and restored
\* cli1: a session no process started with, so one a login of an earlier run
\* wrote
C21_Witness ==
    /\ checkCall = [pc |-> "done", token |-> "t2"]
    /\ isAuthenticated
    /\ user = "cli1"
    /\ storeUser = UserData("cli1")

\* C25: Index renders the Dashboard only while isAuthenticated is true and
\* user is non-null.  In every other state, the states between the two
\* updates of a login, a restore or a logout included, it renders the
\* AuthScreen, or the loading view; the loading view is rendered only while
\* the cold-start check is running.
C25_DashboardOnlyForSession ==
    /\ IndexRender = "dashboard" => (isAuthenticated /\ user # NULL)
    /\ ~(isAuthenticated /\ user # NULL) => IndexRender \in {"auth", "loading"}
    /\ IndexRender = "loading" => checkCall.pc # "done"
    /\ checkCall.pc = "done" =>
          (IndexRender = "auth" <=> ~(isAuthenticated /\ user # NULL))

\* C25 is witnessed between the two updates of a login (user set,
\* isAuthenticated still false): the AuthScreen is rendered
C25_Witness ==
    /\ submit.pc = "setIsAuthenticated"
    /\ user # NULL
    /\ ~isAuthenticated
    /\ IndexRender = "auth"

\* a cold-start check over the store as it is would restore a session
StoreRestores ==
    storeToken # NULL /\ storeUser # NULL /\ JSONParse(storeUser).ok

\* C26: when a storage write fails inside handleLogin, user stays null and
\* isAuthenticated stays false, and the store the failed call leaves behind
\* after its token write is not one a later cold start restores a session
\* from.
C26_FailedLoginNotRestorable ==
    [][HandleLoginStoreReject =>
          /\ user' = NULL
          /\ isAuthenticated' = FALSE
          /\ submit.pc = "setUser" => ~StoreRestores']_vars

\* C27: when checkAuthStatus ends, the loading flag of Index is false; it
\* has restored a session only if the token it read and the stored user_data
\* are both present and the user_data parses, and then the user is the
\* parsed profile; when a key is missing, or a read or the parse fails,
\* isAuthenticated stays false and user stays null.
C27_RestoreNeedsBothKeys ==
    [][(checkCall.pc \in {"getToken", "getUser"} /\ checkCall'.pc = "done") =>
          /\ appLoading' = FALSE
          /\ isAuthenticated' =>
                /\ checkCall.pc = "getUser"
                /\ checkCall.token # NULL
                /\ storeUser # NULL
                /\ JSONParse(storeUser).ok
                /\ user' # NULL
                /\ Profile(user') = JSONParse(storeUser).value
          /\ ~(checkCall.token # NULL /\ storeUser # NULL /\ JSONParse(storeUser).ok) =>
                isAuthenticated' = FALSE /\ user' = NULL]_vars

\* C27 is witnessed by a check that read a token next to a user_data text
\* that does not parse, and ended with nothing restored
C27_Witness ==
    /\ checkCall = [pc |-> "done", token |-> "t1"]
    /\ storeUser = TruncatedUserData
    /\ ~JSONParse(storeUser).ok
    /\ ~appLoading
    /\ ~isAuthenticated
    /\ user = NULL

\* C28: when the login or register response carries no access_token,
\* onSubmit ends there: no GET /api/auth/me is issued, handleLogin is not
\* entered, isAuthenticated, user and both storage keys stay as they were
\* (no session), and loading is false again.
C28_NoTokenNoSession ==
    [][OnSubmitPostNoToken =>
          /\ submit'.pc = "idle"
          /\ ~RequestInFlight'
          /\ authLoading' = FALSE
          /\ isAuthenticated' = FALSE /\ user' = NULL
          /\ storeToken' = storeToken /\ storeUser' = storeUser
          /\ IndexRender' = "auth"]_vars

\* C28 is witnessed where the token-less response is taken: the login POST
\* in flight with nothing stored (the state after it is the one before the
\* submit)
C28_Witness ==
    /\ submit.pc = "post"
    /\ authLoading
    /\ ENABLED OnSubmitPostNoToken
    /\ storeToken = NULL
    /\ storeUser = NULL

\* C30: when a removeItem throws inside handleLogout, user and
\* isAuthenticated keep their values (the session stays established) and
\* both storage keys are still present.
C30_FailedLogoutKeepsBoth ==
    [][HandleLogoutReject =>
          /\ user' = user /\ user' # NULL
          /\ isAuthenticated' = TRUE
          /\ storeToken' # NULL
          /\ storeUser' # NULL]_vars

(***************************************************************************)
(* Properties of the Dashboard                                             *)
(***************************************************************************)
\* C22: for a user whose role is not client, whatever tabs were pressed, the
\* tab bar has no Post Job tab, the JobPostingScreen is not rendered and no
\* job posting is in progress (no POST /api/jobs); for a user whose role is
\* not professional no applyToJob call exists (no POST /api/jobs/{id}/apply).
C22_RoleGates ==
    /\ Role(user) # "client" =>
          /\ \A n \in 1..Len(TabKeys(user)) : TabKeys(user)[n] # "post"
          /\ activeTab # "post"
          /\ TabContent # "JobPostingScreen"
          /\ postCall.pc = "idle"
          /\ ~postLoading
          /\ \A i \in 1..Len(orphanCalls) : orphanCalls[i].op # "onSubmit"
    /\ Role(user) # "professional" =>
          /\ applyCalls = <<>>
          /\ \A i \in 1..Len(orphanCalls) : orphanCalls[i].op # "applyToJob"

\* C22 is witnessed by a professional whose application is on the network
\* while no job posting exists
C22_Witness ==
    /\ Role(user) = "professional"
    /\ TabContent = "JobsScreen"
    /\ Len(applyCalls) = 1
    /\ applyCalls[1].pc = "post"
    /\ postCall.pc = "idle"

(***************************************************************************)
(* Properties of the application as a whole                                *)
(***************************************************************************)
\* the number of requests of calls[1..n] that op may still put on the network
RECURSIVE OrphanRequestsDue(_)
OrphanRequestsDue(n) ==
    IF n = 0 THEN 0
    ELSE OrphanRequestsDue(n - 1)
         + (IF orphanCalls[n].op = "applyToJob" THEN 2 ELSE 1)

\* the number of requests that the calls in progress have on the network or
\* may still send: one GET for a fetchJobs or a fetchApplications, one POST
\* for a job posting, the POST and the fetchJobs() after it for an applyToJob,
\* the POST and GET /api/auth/me for an auth submission
RequestsDue ==
    Len(fetchCalls) + 2 * Len(applyCalls)
    + (IF appsCall.pc \in {"getItem", "get"} THEN 1 ELSE 0)
    + (IF postCall.pc \in {"getItem", "post"} THEN 1 ELSE 0)
    + (IF submit.pc = "post" THEN 2 ELSE IF submit.pc = "me" THEN 1 ELSE 0)
    + OrphanRequestsDue(Len(orphanCalls))

\* the number of calls that have not returned
CallsInProgress ==
    Len(fetchCalls) + Len(applyCalls) + Len(orphanCalls)
    + (IF appsCall.pc \in {"getItem", "get"} THEN 1 ELSE 0)
    + (IF postCall.pc \in {"getItem", "post"} THEN 1 ELSE 0)
    + (IF submit.pc \in {"post", "me"} THEN 1 ELSE 0)

\* the number of requests on the network
RECURSIVE CountAt(_, _, _)
CountAt(calls, pc, n) ==
    IF n = 0 THEN 0
    ELSE CountAt(calls, pc, n - 1) + (IF calls[n].pc = pc THEN 1 ELSE 0)

RequestsOnNetwork ==
    CountAt(fetchCalls, "get", Len(fetchCalls))
    + CountAt(applyCalls, "post", Len(applyCalls))
    + CountAt(orphanCalls, "request", Len(orphanCalls))
    + (IF appsCall.pc = "get" THEN 1 ELSE 0)
    + (IF postCall.pc = "post" THEN 1 ELSE 0)
    + (IF submit.pc \in {"post", "me"} THEN 1 ELSE 0)

\* the steps the user takes that start a call: a submit press, an Apply
\* press, a screen coming up
UserInitiates ==
    \/ OnSubmit
    \/ JobsScreenMount
    \/ \E id \in JobIds : ApplyToJob(id)
    \/ ApplicationsScreenMount
    \/ JobPostingOnSubmit

\* the steps at which a call enters its catch block
CallFails ==
    \/ \E i \in 1..Len(fetchCalls) : FetchJobsReject(i)
    \/ \E i \in 1..Len(applyCalls), d \in Details : ApplyToJobReject(i, d)
    \/ \E i \in 1..Len(applyCalls) : ApplyToJobGetItemReject(i)
    \/ FetchApplicationsReject
    \/ \E d \in Details : JobPostingReject(d)
    \/ JobPostingGetItem /\ alert' = <<PostFallback>>
    \/ \E d \in Details : OnSubmitReject(d)
    \/ \E i \in 1..Len(orphanCalls), d \in Details : OrphanReject(i, d)
    \/ \E i \in 1..Len(orphanCalls) :
          OrphanGetItem(i) /\ alert' = <<PostFallback>>

\* C23: no retries.  The requests that the calls in progress may still send
\* grow in number only at a step the user takes (a submit press, an Apply
\* press, a screen load); a step at which a call fails ends that call, starts
\* no other, takes every request it had left out of that number and puts no
\* request on the network; and a request goes on the network one at a time, at a step
\* the user takes or out of that number, so each call sends each of its
\* requests at most once.
C23_NoRetries ==
    [][/\ RequestsDue' > RequestsDue => UserInitiates
       /\ CallFails => /\ RequestsDue' < RequestsDue
                       /\ CallsInProgress' = CallsInProgress - 1
                       /\ RequestsOnNetwork' <= RequestsOnNetwork
       /\ RequestsOnNetwork' > RequestsOnNetwork =>
             /\ UserInitiates \/ RequestsDue' <= RequestsDue
             /\ RequestsOnNetwork' = RequestsOnNetwork + 1
       /\ RequestsOnNetwork <= RequestsDue]_vars

\* C23 is witnessed by a job posting that has just failed: its Alert is up,
\* the form accepts input again and nothing is left to send
C23_Witness ==
    /\ TabContent = "JobPostingScreen"
    /\ alert = <<PostFallback>>
    /\ postCall = IdlePost
    /\ ~postLoading
    /\ PostFormValid
    /\ RequestsDue = 0

\* the number of POST /api/jobs on the network: the one of the mounted
\* JobPostingScreen and those of the screens a tab press has unmounted
RECURSIVE OrphanPostsInFlight(_)
OrphanPostsInFlight(n) ==
    IF n = 0 THEN 0
    ELSE OrphanPostsInFlight(n - 1)
         + (IF orphanCalls[n].op = "onSubmit" /\ orphanCalls[n].pc = "request"
            THEN 1 ELSE 0)

JobPostsInFlight ==
    (IF postCall.pc = "post" THEN 1 ELSE 0) + OrphanPostsInFlight(Len(orphanCalls))

\* the number of POST /api/auth/login or /api/auth/register on the network
AuthPostsInFlight == IF submit.pc = "post" THEN 1 ELSE 0

\* C29 as stated: at any time at most one POST /api/auth/login or
\* /api/auth/register and at most one POST /api/jobs are on the network.
C29_OnePostInFlight ==
    /\ AuthPostsInFlight <= 1
    /\ JobPostsInFlight <= 1

\* C29, amended: while a submission of the mounted AuthScreen or of the
\* mounted JobPostingScreen is in flight its loading flag is true and its
\* submit press is not accepted, a submission starts only from a screen with
\* no submission in flight and loading false, and at most one auth POST is on
\* the network; a POST /api/jobs of a screen that a tab press has unmounted
\* stays on the network beside the one of the screen mounted since.
C29_OneSubmissionPerScreen ==
    /\ [](/\ submit.pc \in {"post", "me"} => authLoading
          /\ postCall.pc \in {"getItem", "post"} => postLoading
          /\ authLoading => ~ENABLED OnSubmit
          /\ postLoading => ~ENABLED JobPostingOnSubmit
          /\ AuthPostsInFlight <= 1
          /\ \A i \in 1..Len(orphanCalls) :
                orphanCalls[i].op \in {"fetchJobs", "applyToJob",
                                       "fetchApplications", "onSubmit"})
    /\ [][/\ (submit'.pc = "post" /\ submit' # submit) =>
                submit.pc = "idle" /\ ~authLoading /\ authLoading'
          /\ (postCall'.pc = "getItem" /\ postCall' # postCall) =>
                postCall.pc = "idle" /\ ~postLoading /\ postLoading'
          /\ JobPostingOnSubmit => postCall.pc = "idle"]_vars

\* C29 is witnessed by the mounted JobPostingScreen with its POST on the
\* network and its button disabled, beside the POST of the screen that was
\* left
C29_Witness ==
    /\ TabContent = "JobPostingScreen"
    /\ postCall.pc = "post"
    /\ postLoading
    /\ ~ENABLED JobPostingOnSubmit
    /\ JobPostsInFlight = 2

\* C24: no failure leaves a screen stuck.  When the promises of an operation
\* settle, resolved or rejected, the loading flag it set becomes false: every
\* auth submission, job posting, jobs fetch, applications fetch and cold-start
\* check that has loading true leads to loading false (or, for a screen of
\* the tab bar, to the screen being left); a screen whose operation has
\* returned has loading false; and with loading false the submit press of a
\* valid form is accepted again.
C24_LoadingEnds ==
    /\ (authLoading = TRUE) ~> (authLoading = FALSE /\ submit.pc = "idle")
    /\ (postLoading = TRUE) ~> (postLoading = FALSE /\ postCall = IdlePost)
    /\ (jobsMounted /\ jobsLoading) ~> (~jobsMounted \/ ~jobsLoading)
    /\ (appsMounted /\ appsLoading) ~> (~appsMounted \/ ~appsLoading)
    /\ (appLoading = TRUE) ~> (appLoading = FALSE /\ checkCall.pc = "done")
    /\ [](/\ submit.pc = "idle" => ~authLoading
          /\ postCall.pc = "idle" => ~postLoading
          /\ jobsMounted /\ fetchCalls = <<>> => ~jobsLoading
          /\ appsMounted /\ appsCall.pc = "done" => ~appsLoading
          /\ checkCall.pc = "done" => ~appLoading
          /\ AuthShown /\ ~authLoading /\ FormValid => ENABLED OnSubmit
          /\ PostShown /\ ~postLoading /\ PostFormValid =>
                ENABLED JobPostingOnSubmit)

\* C24 is witnessed by an ApplicationsScreen whose fetch has just failed: the
\* Alert is up and loading is false
C24_Witness ==
    /\ TabContent = "ApplicationsScreen"
    /\ appsMounted
    /\ appsCall.pc = "done"
    /\ alert = <<LoadApplicationsFailed>>
    /\ ~appsLoading

====
